---- MODULE Spec2Model ----
(***************************************************************************)
(* Book/Author catalogue of advanced-api-project: the field validation of  *)
(* api/serializers.py, the model validation of api/models.py and the       *)
(* request handlers of api/views.py, as a state machine over the stored    *)
(* Author and Book rows.                                                   *)
(*                                                                         *)
(* The variable shelf is the database of the other project of the          *)
(* repository, advanced_features_and_security (its groups and their        *)
(* permissions, the Books of bookshelf, the user of the session); the      *)
(* requests of advanced-api-project leave it alone.                        *)
(*                                                                         *)
(* The variable library is the database of a third project, django-models  *)
(* (the users of relationship_app with their profiles and permissions, its *)
(* Books, the user of the session).  The variable workers holds the API    *)
(* requests that are part-way through their handler when several are       *)
(* served at once.                                                         *)
(*                                                                         *)
(* Strings are sequences of one-character strings, so that strip(),        *)
(* replace() and title() are computed character by character.              *)
(***************************************************************************)
EXTENDS Integers, Sequences, FiniteSets, TLC

VARIABLES authors, books, nextAuthorId, nextBookId, now, current_year, call, shelf,
          library, workers

vars == <<authors, books, nextAuthorId, nextBookId, now, current_year, call, shelf, library, workers>>

(***************************************************************************)
(* Bounds of the model.                                                    *)
(***************************************************************************)
\* Number of successful create/update writes in one run (each takes a new timestamp).
MaxWrites == 3
\* The years the clock shows from the start of a run to its end.
FirstYear == 2025
LastYear == 2026

(***************************************************************************)
(* Program constants.                                                      *)
(***************************************************************************)
MinYear == 1000
IsbnMaxLength == 13
IsbnShort == 10
IsbnLong == 13

(***************************************************************************)
(* Strings                                                                 *)
(***************************************************************************)
LowerLetters ==
    <<"a","b","c","d","e","f","g","h","i","j","k","l","m",
      "n","o","p","q","r","s","t","u","v","w","x","y","z">>
UpperLetters ==
    <<"A","B","C","D","E","F","G","H","I","J","K","L","M",
      "N","O","P","Q","R","S","T","U","V","W","X","Y","Z">>

IsLower(c) == \E i \in 1..Len(LowerLetters) : LowerLetters[i] = c
IsUpper(c) == \E i \in 1..Len(UpperLetters) : UpperLetters[i] = c
ToUpper(c) ==
    IF IsLower(c)
    THEN UpperLetters[CHOOSE i \in 1..Len(LowerLetters) : LowerLetters[i] = c]
    ELSE c
ToLower(c) ==
    IF IsUpper(c)
    THEN LowerLetters[CHOOSE i \in 1..Len(UpperLetters) : UpperLetters[i] = c]
    ELSE c
\* str.lower()
RECURSIVE Lower(_)
Lower(s) == IF s = <<>> THEN <<>> ELSE <<ToLower(Head(s))>> \o Lower(Tail(s))

\* The characters str.strip() removes from both ends.
IsSpace(c) == c \in {" ", "\t", "\n"}

RECURSIVE LStrip(_)
LStrip(s) == IF s # <<>> /\ IsSpace(Head(s)) THEN LStrip(Tail(s)) ELSE s
RECURSIVE RStrip(_)
RStrip(s) ==
    IF s # <<>> /\ IsSpace(s[Len(s)]) THEN RStrip(SubSeq(s, 1, Len(s) - 1)) ELSE s
\* Mutant of Strip: lstrip() in place of strip().
Strip_LeftOnly(s) == LStrip(s)

\* str.strip()
Strip(s) == RStrip(LStrip(s))

\* str.replace(ch, '')
Remove(s, ch) == SelectSeq(s, LAMBDA c : c # ch)

\* str.title(): a cased character is upper-cased when the previous character
\* is not cased, lower-cased when it is.
RECURSIVE TitleFrom(_, _)
TitleFrom(s, prevCased) ==
    IF s = <<>> THEN <<>>
    ELSE LET c == Head(s) IN
         IF IsLower(c)
         THEN <<IF prevCased THEN c ELSE ToUpper(c)>> \o TitleFrom(Tail(s), TRUE)
         ELSE IF IsUpper(c)
         THEN <<IF prevCased THEN ToLower(c) ELSE c>> \o TitleFrom(Tail(s), TRUE)
         ELSE <<c>> \o TitleFrom(Tail(s), FALSE)
Title(s) == TitleFrom(s, FALSE)

\* Python's None for an optional string field.
None == <<"None">>

(***************************************************************************)
(* api/serializers.py: field validation                                    *)
(***************************************************************************)
\* A validation result: err = "ok" and the validated value, or the error.
Ok(v) == [err |-> "ok", value |-> v]
Fail(e, v) == [err |-> e, value |-> v]

\* `if value:` / `not value` on an optional string.
Truthy(s) == s # None /\ s # <<>>

\* Mutant of validate_publication_year: `>=` in place of `>`.
validate_publication_year_Ge(value, cy) ==
    IF value >= cy THEN Fail("FutureYear", value)
    ELSE IF value < MinYear THEN Fail("YearTooEarly", value)
    ELSE Ok(value)

\* BookSerializer.validate_publication_year
validate_publication_year(value, cy) ==
    IF value > cy THEN Fail("FutureYear", value)
    ELSE IF value < MinYear THEN Fail("YearTooEarly", value)
    ELSE Ok(value)

\* BookSerializer.validate_title
validate_title(value) ==
    IF ~Truthy(value) \/ Strip(value) = <<>> THEN Fail("EmptyTitle", value)
    ELSE Ok(Strip(value))

\* BookSerializer.validate_isbn
validate_isbn(value) ==
    IF Truthy(value)
    THEN LET clean_isbn == Remove(Remove(value, "-"), " ") IN
         IF Len(clean_isbn) \notin {IsbnShort, IsbnLong}
         THEN Fail("InvalidIsbnLength", value)
         ELSE Ok(clean_isbn)
    ELSE Ok(value)

\* Mutant of validate_name: the name is trimmed but not title-cased.
validate_name_NoTitle(value) ==
    IF ~Truthy(value) \/ Strip(value) = <<>> THEN Fail("EmptyName", value)
    ELSE Ok(Strip(value))

\* AuthorSerializer.validate_name
validate_name(value) ==
    IF ~Truthy(value) \/ Strip(value) = <<>> THEN Fail("EmptyName", value)
    ELSE Ok(Title(Strip(value)))

\* The serializer field built for Book.title (a required CharField that
\* trims whitespace and refuses a blank), followed by validate_title.
TitleField(raw) ==
    IF Strip(raw) = <<>> THEN Fail("blank", raw) ELSE validate_title(Strip(raw))

\* The serializer field built for Book.isbn (max_length=13, blank=True,
\* null=True): None and a blank skip the length validator, which otherwise
\* runs on the trimmed input; validate_isbn then runs on what the field returns.
IsbnField(raw) ==
    IF raw = None THEN validate_isbn(None)
    ELSE IF Strip(raw) = <<>> THEN validate_isbn(<<>>)
    ELSE IF Len(Strip(raw)) > IsbnMaxLength THEN Fail("max_length", raw)
    ELSE validate_isbn(Strip(raw))

\* The serializer field built for Author.name, followed by validate_name.
NameField(raw) ==
    IF Strip(raw) = <<>> THEN Fail("blank", raw) ELSE validate_name(Strip(raw))

(***************************************************************************)
(* api/models.py: Book.full_clean as Book.save runs it                     *)
(***************************************************************************)
AuthorIds(as) == {a.id : a \in as}
BookIds(bs) == {b.id : b \in bs}

\* Model.clean_fields for a Book: the names of the fields refused.
BookCleanFields(b, as) ==
    {f \in {"title", "author", "isbn"} :
        \/ f = "title" /\ b.title = <<>>
        \/ f = "author" /\ b.author \notin AuthorIds(as)
        \/ f = "isbn" /\ Truthy(b.isbn) /\ Len(b.isbn) > IsbnMaxLength}

\* Book.clean: the first check that fails raises; the title and the isbn are
\* rewritten on the instance in the order of the code.
BookClean(b, cy) ==
    IF ~Truthy(b.title) \/ Strip(b.title) = <<>> THEN Fail("EmptyTitle", b)
    ELSE IF b.publication_year > cy THEN Fail("FutureYear", b)
    ELSE IF b.publication_year < MinYear THEN Fail("YearTooEarly", b)
    ELSE LET b1 == [b EXCEPT !.title = Strip(b.title)] IN
         IF Truthy(b1.isbn)
         THEN LET b2 == [b1 EXCEPT !.isbn = Remove(Remove(Strip(b1.isbn), "-"), " ")] IN
              IF Len(b2.isbn) \notin {IsbnShort, IsbnLong}
              THEN Fail("InvalidIsbnLength", b2)
              ELSE Ok(b2)
         ELSE Ok(b1)

\* Mutant of UniqueTogether: unique_together left out of Book.Meta.
UniqueTogether_Dropped(title, author, o) == FALSE

\* Book.Meta.unique_together = ['title', 'author']: row o holds the pair.
UniqueTogether(title, author, o) == o.title = title /\ o.author = author

\* Model.validate_unique for a Book: another row (not this one) holds its pair.
BookUniqueClash(b, bs) ==
    \E o \in bs : o.id # b.id /\ UniqueTogether(b.title, b.author, o)

\* Model.full_clean: clean_fields, then clean, then validate_unique without
\* the fields clean_fields refused; every error is collected.
BookFullClean(b, as, bs, cy) ==
    LET bad == BookCleanFields(b, as)
        c == BookClean(b, cy)
        uniq == /\ "title" \notin bad
                /\ "author" \notin bad
                /\ BookUniqueClash(c.value, bs)
        errs == {IF f = "title" THEN "blank"
                 ELSE IF f = "author" THEN "does_not_exist"
                 ELSE "max_length" : f \in bad}
                \cup (IF c.err = "ok" THEN {} ELSE {c.err})
                \cup (IF uniq THEN {"unique"} ELSE {})
    IN [errors |-> errs, value |-> c.value]

\* Author.clean (run by forms and by an explicit call, not by save()).
AuthorClean(name) ==
    IF ~Truthy(name) \/ Strip(name) = <<>> THEN Fail("EmptyName", name)
    ELSE Ok(Title(Strip(name)))

(***************************************************************************)
(* Requests                                                                *)
(***************************************************************************)
BookWritable == {"title", "publication_year", "author", "isbn"}
BookRequired == {"title", "publication_year", "author"}

\* The body of a request: the fields it supplies and their values (a field
\* that is not supplied carries a fixed filler and is never read).
NoData ==
    [fields |-> {}, name |-> <<>>, title |-> <<>>, publication_year |-> 0,
     author |-> 0, isbn |-> None]

NoCall ==
    [op |-> "none", auth |-> FALSE, id |-> 0, partial |-> FALSE, data |-> NoData,
     status |-> 0, errors |-> {}, body |-> <<>>]

Request(op, auth, id, partial, data) ==
    [op |-> op, auth |-> auth, id |-> id, partial |-> partial, data |-> data,
     status |-> 0, errors |-> {}, body |-> <<>>]

Response(req, status, errors, id, body) ==
    [req EXCEPT !.status = status, !.errors = errors, !.id = id, !.body = body]

\* Raw author names sent by clients.
NameInputs ==
    { <<" ", " ">>,
      <<" ", "a", "B", " ", "c", " ">>,
      <<" ", " ", "t", "e", "s", "t", " ", "a", "u", "t", "h", "o", "r", " ", " ">> }

\* Raw book titles sent by clients.
TitleInputs ==
    { <<" ">>,
      <<"A", "b">>,
      <<" ", "b", " ">> }

\* Raw ISBNs sent by clients.
IsbnInputs ==
    { None,
      <<"1","2","3","-","4","5","6","-","7","8","9","-","0">>,
      <<"1","2","3","4","5">> }

\* Publication years sent by clients, around both ends of the accepted range.
YearInputs(cy) == {MinYear - 1, cy, cy + 1}

\* Author ids sent by clients: every id assigned so far and one never assigned.
AuthorIdInputs == 1..nextAuthorId
BookIdInputs == 1..nextBookId

AuthorData(name) == [NoData EXCEPT !.fields = {"name"}, !.name = name]

BookData(fs, t, y, a, i) ==
    [fields |-> fs, name |-> <<>>,
     title |-> IF "title" \in fs THEN t ELSE <<>>,
     publication_year |-> IF "publication_year" \in fs THEN y ELSE 0,
     author |-> IF "author" \in fs THEN a ELSE 0,
     isbn |-> IF "isbn" \in fs THEN i ELSE None]

\* Bodies of POST /books/: every writable field supplied.
CreateBookInputs(cy) ==
    {BookData(BookWritable, t, y, a, i) :
        t \in TitleInputs, y \in YearInputs(cy), a \in AuthorIdInputs, i \in IsbnInputs}

\* The field sets of the PATCH bodies: no field, one field, or the two fields
\* of the unique pair together.
PatchFieldSets == {{}, {"title", "author"}} \cup {{f} : f \in BookWritable}

\* Bodies of PATCH /books/<pk>/.
PatchBookInputs(cy) ==
    {BookData(fs, t, y, a, i) :
        fs \in PatchFieldSets,
        t \in TitleInputs, y \in YearInputs(cy), a \in AuthorIdInputs, i \in IsbnInputs}

\* Bodies of PUT /books/<pk>/: the required fields, or an empty body.
PutBookInputs(cy) ==
    {BookData(BookRequired, t, y, a, None) :
        t \in TitleInputs, y \in YearInputs(cy), a \in AuthorIdInputs}
    \cup {NoData}

(***************************************************************************)
(* api/serializers.py: BookSerializer and AuthorSerializer                 *)
(***************************************************************************)
NoBook ==
    [id |-> 0, title |-> <<>>, publication_year |-> 0, author |-> 0, isbn |-> None,
     created_at |-> 0, updated_at |-> 0]

\* Serializer.to_internal_value of BookSerializer: every writable field is
\* run and the errors of all of them are collected.
BookFieldErrors(data, partial, as, cy) ==
    (IF ~partial /\ BookRequired \ data.fields # {} THEN {"required"} ELSE {})
    \cup {TitleField(data.title).err : f \in data.fields \cap {"title"}}
    \cup {validate_publication_year(data.publication_year, cy).err :
              f \in data.fields \cap {"publication_year"}}
    \cup {IF data.author \in AuthorIds(as) THEN "ok" ELSE "does_not_exist" :
              f \in data.fields \cap {"author"}}
    \cup {IsbnField(data.isbn).err : f \in data.fields \cap {"isbn"}}

\* The validated data of a body whose fields all passed.
BookValidated(data) ==
    [data EXCEPT
        !.title = IF "title" \in data.fields THEN TitleField(data.title).value ELSE <<>>,
        !.isbn = IF "isbn" \in data.fields THEN IsbnField(data.isbn).value ELSE None]

\* Mutant of UniqueTogetherValidator: the serializer runs no such validator.
UniqueTogetherValidator_Off(attrs, instance, bs) == FALSE

\* The UniqueTogetherValidator that ModelSerializer derives from
\* Book.Meta.unique_together: a field the body leaves out is read from the
\* instance, and the instance itself is left out of the search.
UniqueTogetherValidator(attrs, instance, bs) ==
    LET t == IF "title" \in attrs.fields THEN attrs.title ELSE instance.title
        a == IF "author" \in attrs.fields THEN attrs.author ELSE instance.author
    IN \E o \in bs : o.id # instance.id /\ UniqueTogether(t, a, o)

\* BookSerializer.validate
BookSerializer_validate(attrs, as) ==
    IF "author" \in attrs.fields /\ attrs.author \notin AuthorIds(as)
    THEN {"AuthorNotFound"}
    ELSE {}

\* Serializer.run_validation of BookSerializer: the fields, then the
\* validators, then validate(); the first stage that fails ends it.
BookSerializerValidate(data, instance, partial, as, bs, cy) ==
    LET fe == BookFieldErrors(data, partial, as, cy) \ {"ok"}
        attrs == BookValidated(data)
    IN IF fe # {} THEN [errors |-> fe, value |-> data]
       ELSE IF UniqueTogetherValidator(attrs, instance, bs)
       THEN [errors |-> {"unique"}, value |-> attrs]
       ELSE [errors |-> BookSerializer_validate(attrs, as), value |-> attrs]

\* Mutant of BookApply: an isbn the body leaves out is reset to None.
BookApply_ResetIsbn(attrs, instance) ==
    [instance EXCEPT
        !.title = IF "title" \in attrs.fields THEN attrs.title ELSE @,
        !.publication_year =
            IF "publication_year" \in attrs.fields THEN attrs.publication_year ELSE @,
        !.author = IF "author" \in attrs.fields THEN attrs.author ELSE @,
        !.isbn = IF "isbn" \in attrs.fields THEN attrs.isbn ELSE None]

\* ModelSerializer.create / update: the instance the validated data gives.
BookApply(attrs, instance) ==
    [instance EXCEPT
        !.title = IF "title" \in attrs.fields THEN attrs.title ELSE @,
        !.publication_year =
            IF "publication_year" \in attrs.fields THEN attrs.publication_year ELSE @,
        !.author = IF "author" \in attrs.fields THEN attrs.author ELSE @,
        !.isbn = IF "isbn" \in attrs.fields THEN attrs.isbn ELSE @]

\* Serializer.run_validation of AuthorSerializer.
AuthorSerializerValidate(data, partial) ==
    LET fe == (IF ~partial /\ "name" \notin data.fields THEN {"required"} ELSE {})
              \cup {NameField(data.name).err : f \in data.fields \cap {"name"}}
    IN [errors |-> fe \ {"ok"},
        value |-> IF "name" \in data.fields
                  THEN [data EXCEPT !.name = NameField(data.name).value]
                  ELSE data]

(***************************************************************************)
(* Ordering of rows (Book.Meta.ordering and the list views)                *)
(***************************************************************************)
\* The characters of the model in code-point order.
CharOrder ==
    <<"\t", "\n", " ", "'", "-", "0", "1", "2", "3", "4", "5", "6", "7", "8", "9">>
    \o UpperLetters \o LowerLetters
CharCode(c) == CHOOSE i \in 1..Len(CharOrder) : CharOrder[i] = c

\* a < b for strings, as the database compares them.
RECURSIVE StrLess(_, _)
StrLess(a, b) ==
    IF b = <<>> THEN FALSE
    ELSE IF a = <<>> THEN TRUE
    ELSE IF Head(a) = Head(b) THEN StrLess(Tail(a), Tail(b))
    ELSE CharCode(Head(a)) < CharCode(Head(b))

\* ordering = ['-publication_year', 'title']: x may come before y.
DefaultBookOrder(x, y) ==
    \/ x.publication_year > y.publication_year
    \/ x.publication_year = y.publication_year /\ ~StrLess(y.title, x.title)

\* Mutant of Listings: rows may be repeated or left out (a join that
\* multiplies rows).
Listings_Repeating(S) ==
    {q \in [1..Cardinality(S) -> S] :
        \A i, j \in 1..Cardinality(S) : i < j => DefaultBookOrder(q[i], q[j])}

\* Every listing of the rows of S, each once, in the view's default order
\* (rows the ordering does not tell apart come in any order).
Listings(S) ==
    {q \in [1..Cardinality(S) -> S] :
        \A i, j \in 1..Cardinality(S) :
            i < j => q[i] # q[j] /\ DefaultBookOrder(q[i], q[j])}

AuthorOf(b, as) == CHOOSE a \in as : a.id = b.author

\* BookListSerializer: the representation of one Book in a list.
BookListItem(b, as) ==
    [id |-> b.id, title |-> b.title, publication_year |-> b.publication_year,
     author_name |-> AuthorOf(b, as).name, author |-> b.author,
     created_at |-> b.created_at, updated_at |-> b.updated_at]

(***************************************************************************)
(* advanced_features_and_security: the groups of bookshelf and the         *)
(* permissions of its Book model.                                          *)
(***************************************************************************)
\* The codenames setup_groups looks up, in the order it does.
Codenames == {"can_view", "can_create", "can_edit", "can_delete"}
\* The groups setup_groups makes, in the order it does.
GroupNames == <<"Viewers", "Editors", "Admins">>

\* A row of Group with its permissions, or the lack of one.
Group(exists, permissions) == [exists |-> exists, permissions |-> permissions]

\* request.user: a row of the user model, or AnonymousUser.
User(name, authenticated, active, superuser, groups, user_permissions) ==
    [name |-> name, authenticated |-> authenticated, active |-> active,
     superuser |-> superuser, groups |-> groups, user_permissions |-> user_permissions]
AnonymousUser == User("", FALSE, FALSE, FALSE, {}, {})

\* The last response of the bookshelf views; none yet.
ShelfResponse(view, method, book_id, status) ==
    [view |-> view, method |-> method, book_id |-> book_id, status |-> status]
NoShelfResponse == ShelfResponse("none", "GET", 0, 0)

\* django-models: the names users register under, UserProfile.ROLE_CHOICES
\* and the permissions of relationship_app's Book.
LibraryNames == {"alice", "bob"}
Roles == {"Admin", "Librarian", "Member"}
LibraryCodenames == {"can_add_book", "can_change_book", "can_delete_book"}

\* The last response of the relationship_app views.
LibraryResponse(view, method, book_id, status) ==
    [view |-> view, method |-> method, book_id |-> book_id, status |-> status]

\* django-models: no user ("NoUser" under every name), no Book, nobody logged
\* in, no response yet.  A user's profile is "NoProfile" when it has none,
\* or the role of its UserProfile row.
NoLibrary ==
    [profiles |-> [n \in LibraryNames |-> "NoUser"],
     permissions |-> [n \in LibraryNames |-> {}],
     user |-> "", books |-> {}, nextId |-> 1,
     last |-> LibraryResponse("none", "GET", 0, 0)]

\* No API request is part-way through its handler.
NoWorkers == <<>>

\* create_test_users is not running and has not run: its position, the
\* test user it is at, the row it holds, the user rows when it started, its
\* output and its runs so far.
NoJob == [pc |-> "idle", index |-> 0, user |-> 0, before |-> {}, output |-> "", runs |-> 0]

\* The database before anything is installed, setup_groups not running, no
\* Book on the shelf, nobody logged in and no user row.
NoShelf ==
    [groups |-> [g \in {"Viewers", "Editors", "Admins"} |-> Group(FALSE, {})],
     pc |-> "idle", group |-> 0, created |-> {}, runs |-> 0,
     books |-> {}, nextId |-> 1, user |-> AnonymousUser, last |-> NoShelfResponse,
     users |-> {}, nextUserId |-> 1, job |-> NoJob]

(***************************************************************************)
(* State machine                                                           *)
(***************************************************************************)
Init ==
    /\ authors = {}
    /\ books = {}
    /\ nextAuthorId = 1
    /\ nextBookId = 1
    /\ now = 0
    /\ current_year = FirstYear
    /\ call = NoCall
    /\ shelf = NoShelf
    /\ library = NoLibrary
    /\ workers = NoWorkers

Idle == call.op = "none"

\* A request that leaves the database as it is.
Refuse(req, status, errors) ==
    /\ call' = Response(req, status, errors, req.id, <<>>)
    /\ UNCHANGED <<authors, books, nextAuthorId, nextBookId, now, current_year, shelf, library, workers>>

\* POST /authors/ (AuthorListCreateView, AuthorSerializer.create)
CreateAuthor(auth, data) ==
    LET req == Request("createAuthor", auth, 0, FALSE, data)
        v == AuthorSerializerValidate(data, FALSE)
    IN /\ Idle
       /\ IF ~auth THEN Refuse(req, 403, {})
          ELSE IF v.errors # {} THEN Refuse(req, 400, v.errors)
          ELSE /\ now < MaxWrites
               /\ authors' = authors \cup
                     {[id |-> nextAuthorId, name |-> v.value.name,
                       created_at |-> now, updated_at |-> now]}
               /\ nextAuthorId' = nextAuthorId + 1
               /\ now' = now + 1
               /\ call' = Response(req, 201, {}, nextAuthorId, <<>>)
               /\ UNCHANGED <<books, nextBookId, current_year, shelf, library, workers>>

\* PUT/PATCH /authors/<pk>/ (AuthorDetailView, AuthorUpdateView, AuthorSerializer.update)
UpdateAuthor(auth, id, partial, data) ==
    LET req == Request("updateAuthor", auth, id, partial, data)
        v == AuthorSerializerValidate(data, partial)
        instance == CHOOSE a \in authors : a.id = id
    IN /\ Idle
       /\ IF ~auth THEN Refuse(req, 403, {})
          ELSE IF id \notin AuthorIds(authors) THEN Refuse(req, 404, {"NotFound"})
          ELSE IF v.errors # {} THEN Refuse(req, 400, v.errors)
          ELSE /\ now < MaxWrites
               /\ authors' = (authors \ {instance}) \cup
                     {[instance EXCEPT
                         !.name = IF "name" \in data.fields THEN v.value.name ELSE @,
                         !.updated_at = now]}
               /\ now' = now + 1
               /\ call' = Response(req, 200, {}, id, <<>>)
               /\ UNCHANGED <<books, nextAuthorId, nextBookId, current_year, shelf, library, workers>>

\* Mutant of Cascade: the author's Books stay (on_delete=DO_NOTHING).
Cascade_None(bs, author) == bs
\* Mutant of Cascade: every Book goes.
Cascade_All(bs, author) == {}

\* Book.author, on_delete=models.CASCADE: the rows of Book left when the
\* author is deleted.
Cascade(bs, author) == {b \in bs : b.author # author}

\* DELETE /authors/<pk>/ (AuthorDetailView, AuthorDeleteView)
DeleteAuthor(auth, id) ==
    LET req == Request("deleteAuthor", auth, id, FALSE, NoData)
    IN /\ Idle
       /\ IF ~auth THEN Refuse(req, 403, {})
          ELSE IF id \notin AuthorIds(authors) THEN Refuse(req, 404, {"NotFound"})
          ELSE /\ authors' = {a \in authors : a.id # id}
               /\ books' = Cascade(books, id)
               /\ call' = Response(req, 204, {}, id, <<>>)
               /\ UNCHANGED <<nextAuthorId, nextBookId, now, current_year, shelf, library, workers>>

\* Book.save: full_clean, then the row is written; a ValidationError leaves
\* the view uncaught (status 500) and nothing is written.
\* POST /books/ (BookListCreateView.perform_create)
CreateBook(auth, data) ==
    LET req == Request("createBook", auth, 0, FALSE, data)
        v == BookSerializerValidate(data, NoBook, FALSE, authors, books, current_year)
        b == BookApply(v.value, [NoBook EXCEPT !.id = nextBookId])
        fc == BookFullClean(b, authors, books, current_year)
    IN /\ Idle
       /\ IF ~auth THEN Refuse(req, 403, {})
          ELSE IF v.errors # {} THEN Refuse(req, 400, v.errors)
          ELSE IF fc.errors # {} THEN Refuse(req, 500, fc.errors)
          ELSE /\ now < MaxWrites
               /\ books' = books \cup
                     {[fc.value EXCEPT !.created_at = now, !.updated_at = now]}
               /\ nextBookId' = nextBookId + 1
               /\ now' = now + 1
               /\ call' = Response(req, 201, {}, nextBookId, <<>>)
               /\ UNCHANGED <<authors, nextAuthorId, current_year, shelf, library, workers>>

\* PUT/PATCH /books/<pk>/ (BookDetailView, BookUpdateView)
UpdateBook(auth, id, partial, data) ==
    LET req == Request("updateBook", auth, id, partial, data)
        instance == CHOOSE b \in books : b.id = id
        v == BookSerializerValidate(data, instance, partial, authors, books, current_year)
        b == BookApply(v.value, instance)
        fc == BookFullClean(b, authors, books, current_year)
    IN /\ Idle
       /\ IF ~auth THEN Refuse(req, 403, {})
          ELSE IF id \notin BookIds(books) THEN Refuse(req, 404, {"NotFound"})
          ELSE IF v.errors # {} THEN Refuse(req, 400, v.errors)
          ELSE IF fc.errors # {} THEN Refuse(req, 500, fc.errors)
          ELSE /\ now < MaxWrites
               /\ books' = (books \ {instance}) \cup
                     {[fc.value EXCEPT !.updated_at = now]}
               /\ now' = now + 1
               /\ call' = Response(req, 200, {}, id, <<>>)
               /\ UNCHANGED <<authors, nextAuthorId, nextBookId, current_year, shelf, library, workers>>

\* Mutant of DeleteBook: the permission check is left out.
DeleteBook_AnyCaller(auth, id) ==
    LET req == Request("deleteBook", auth, id, FALSE, NoData)
    IN /\ Idle
       /\ IF id \notin BookIds(books) THEN Refuse(req, 404, {"NotFound"})
          ELSE /\ books' = {b \in books : b.id # id}
               /\ call' = Response(req, 204, {}, id, <<>>)
               /\ UNCHANGED <<authors, nextAuthorId, nextBookId, now, current_year, shelf, library, workers>>

\* DELETE /books/<pk>/ (BookDetailView, BookDeleteView)
DeleteBook(auth, id) ==
    LET req == Request("deleteBook", auth, id, FALSE, NoData)
    IN /\ Idle
       /\ IF ~auth THEN Refuse(req, 403, {})
          ELSE IF id \notin BookIds(books) THEN Refuse(req, 404, {"NotFound"})
          ELSE /\ books' = {b \in books : b.id # id}
               /\ call' = Response(req, 204, {}, id, <<>>)
               /\ UNCHANGED <<authors, nextAuthorId, nextBookId, now, current_year, shelf, library, workers>>

\* GET /books/ (BookListCreateView, BookListView): open to every caller.
ListBooks(auth) ==
    LET req == Request("listBooks", auth, 0, FALSE, NoData)
    IN /\ Idle
       /\ \E q \in Listings(books) :
             call' = Response(req, 200, {}, 0,
                              [i \in 1..Len(q) |-> BookListItem(q[i], authors)])
       /\ UNCHANGED <<authors, books, nextAuthorId, nextBookId, now, current_year, shelf, library, workers>>

\* The response has been sent; the server waits for the next request.
Respond ==
    /\ ~Idle
    /\ call' = NoCall
    /\ UNCHANGED <<authors, books, nextAuthorId, nextBookId, now, current_year, shelf, library, workers>>

\* timezone.now().year moves on between two requests.
NewYear ==
    /\ Idle
    /\ current_year < LastYear
    /\ current_year' = current_year + 1
    /\ UNCHANGED <<authors, books, nextAuthorId, nextBookId, now, call, shelf, library, workers>>

(***************************************************************************)
(* The requests clients send.  A caller who is not authenticated is        *)
(* refused before the body or the id is read, so one body and one id stand *)
(* for all of them.                                                        *)
(***************************************************************************)
PostAuthor == Idle /\ \E name \in NameInputs : CreateAuthor(TRUE, AuthorData(name))
PostAuthorAnonymous == CreateAuthor(FALSE, NoData)
PutPatchAuthor ==
    Idle /\ \E id \in AuthorIdInputs, partial \in BOOLEAN,
               data \in {AuthorData(n) : n \in NameInputs} \cup {NoData} :
               UpdateAuthor(TRUE, id, partial, data)
PatchAuthorAnonymous == UpdateAuthor(FALSE, 1, TRUE, NoData)
DeleteAuthorRequest == Idle /\ \E id \in AuthorIdInputs : DeleteAuthor(TRUE, id)
DeleteAuthorAnonymous == DeleteAuthor(FALSE, 1)
PostBook == Idle /\ \E data \in CreateBookInputs(current_year) : CreateBook(TRUE, data)
PostBookAnonymous == CreateBook(FALSE, NoData)
PatchBook ==
    Idle /\ \E id \in BookIdInputs, data \in PatchBookInputs(current_year) :
               UpdateBook(TRUE, id, TRUE, data)
PutBook ==
    Idle /\ \E id \in BookIdInputs, data \in PutBookInputs(current_year) :
               UpdateBook(TRUE, id, FALSE, data)
PatchBookAnonymous == UpdateBook(FALSE, 1, TRUE, NoData)
DeleteBookRequest == Idle /\ \E id \in BookIdInputs : DeleteBook(TRUE, id)
DeleteBookAnonymous == DeleteBook(FALSE, 1)
GetBooks == \E auth \in BOOLEAN : ListBooks(auth)

Next ==
    \/ PostAuthor
    \/ PostAuthorAnonymous
    \/ PutPatchAuthor
    \/ PatchAuthorAnonymous
    \/ DeleteAuthorRequest
    \/ DeleteAuthorAnonymous
    \/ PostBook
    \/ PostBookAnonymous
    \/ PatchBook
    \/ PutBook
    \/ PatchBookAnonymous
    \/ DeleteBookRequest
    \/ DeleteBookAnonymous
    \/ GetBooks
    \/ Respond
    \/ NewYear

Spec == Init /\ [][Next]_vars

(***************************************************************************)
(* The validation functions on their own: one call per behaviour, its      *)
(* input drawn by the initial state.                                       *)
(***************************************************************************)
DigitChars == <<"0", "1", "2", "3", "4", "5", "6", "7", "8", "9">>
Digits(n) == [i \in 1..n |-> DigitChars[(i % 10) + 1]]

\* s with ch put in after every k characters.
RECURSIVE Separated(_, _, _)
Separated(s, k, ch) ==
    IF Len(s) <= k THEN s
    ELSE SubSeq(s, 1, k) \o <<ch>> \o Separated(SubSeq(s, k + 1, Len(s)), k, ch)

Isbn13Hyphenated ==
    <<"9","7","8","-","0","-","1","3","-","2","3","5","0","8","8","-","4">>

IsbnSamples ==
    {None, <<>>, <<" ">>, <<"-">>, Isbn13Hyphenated, <<" ">> \o Digits(10) \o <<" ">>}
    \cup IsbnInputs
    \cup {Separated(Digits(n), k, ch) :
            n \in {5, 9, 10, 11, 12, 13, 14}, k \in {1, 3, 14}, ch \in {"-", " "}}

YearSamples(cy) ==
    {-1, 0} \cup ((MinYear - 2)..(MinYear + 1)) \cup ((cy - 2)..(cy + 2))

NameSamples ==
    NameInputs \cup
    { <<>>, <<"\t">>, <<"o", "'", "n", "e", "i", "l">>, <<"3", "a", " ", "B", "C">>,
      <<"a">>, <<" ", "M", "c", "D", " ">> }

\* The isbn a Book ends with when `raw` is posted with an otherwise valid
\* body: the serializer field, then Book.save's full_clean on what it gives.
SaveIsbn(raw, cy) ==
    LET f == IsbnField(raw)
        b == [NoBook EXCEPT !.id = 1, !.title = <<"A">>, !.publication_year = MinYear,
                            !.isbn = f.value]
        c == BookClean(b, cy)
    IN IF f.err # "ok" THEN f
       ELSE IF "isbn" \in BookCleanFields(b, {}) THEN Fail("max_length", raw)
       ELSE IF c.err # "ok" THEN Fail(c.err, raw)
       ELSE Ok(c.value.isbn)

InitValidate ==
    /\ authors = {}
    /\ books = {}
    /\ nextAuthorId = 1
    /\ nextBookId = 1
    /\ now = 0
    /\ current_year \in FirstYear..LastYear
    /\ call \in
          {Request("validate_publication_year", TRUE, 0, FALSE,
                   [NoData EXCEPT !.fields = {"publication_year"}, !.publication_year = y]) :
              y \in YearSamples(current_year)}
          \cup {Request("validate_isbn", TRUE, 0, FALSE,
                        [NoData EXCEPT !.fields = {"isbn"}, !.isbn = i]) :
                   i \in IsbnSamples}
          \cup {Request(op, TRUE, 0, FALSE, AuthorData(n)) :
                   op \in {"validate_name", "author_clean"}, n \in NameSamples}
    /\ shelf = NoShelf
    /\ library = NoLibrary
    /\ workers = NoWorkers

Answer(r) ==
    /\ call' = Response(call, IF r.err = "ok" THEN 200 ELSE 400,
                        IF r.err = "ok" THEN {} ELSE {r.err}, 0, <<r.value>>)
    /\ UNCHANGED <<authors, books, nextAuthorId, nextBookId, now, current_year, shelf, library, workers>>

ValidatePublicationYear ==
    /\ call.op = "validate_publication_year"
    /\ call.status = 0
    /\ Answer(validate_publication_year(call.data.publication_year, current_year))

ValidateIsbn ==
    /\ call.op = "validate_isbn"
    /\ call.status = 0
    /\ Answer(SaveIsbn(call.data.isbn, current_year))

ValidateName ==
    /\ call.op = "validate_name"
    /\ call.status = 0
    /\ Answer(NameField(call.data.name))

CleanAuthor ==
    /\ call.op = "author_clean"
    /\ call.status = 0
    /\ Answer(AuthorClean(call.data.name))

NextValidate ==
    \/ ValidatePublicationYear
    \/ ValidateIsbn
    \/ ValidateName
    \/ CleanAuthor

SpecValidate == InitValidate /\ [][NextValidate]_vars

(***************************************************************************)
(* api/views.py: the read requests.  SearchFilter and OrderingFilter of    *)
(* the book list, author_books, the author list and book_statistics.       *)
(***************************************************************************)
\* t occurs in s.
Contains(s, t) == \E i \in 0..(Len(s) - Len(t)) : SubSeq(s, i + 1, i + Len(t)) = t

\* field__icontains=t: a NULL field matches nothing.
IContains(s, t) == s # None /\ Contains(Lower(s), Lower(t))

\* SearchFilter.get_search_terms: commas count as spaces and the parameter is
\* split at whitespace.
IsTermBreak(c) == IsSpace(c) \/ c = ","
RECURSIVE SearchTermsFrom(_, _)
SearchTermsFrom(s, cur) ==
    IF s = <<>> THEN (IF cur = <<>> THEN {} ELSE {cur})
    ELSE IF IsTermBreak(Head(s))
    THEN (IF cur = <<>> THEN {} ELSE {cur}) \cup SearchTermsFrom(Tail(s), <<>>)
    ELSE SearchTermsFrom(Tail(s), cur \o <<Head(s)>>)
get_search_terms(params) == SearchTermsFrom(params, <<>>)

\* Mutant of SearchMatches: the isbn is left out of search_fields.
SearchMatches_NoIsbn(b, as, term) ==
    \/ IContains(b.title, term)
    \/ IContains(AuthorOf(b, as).name, term)

\* search_fields = ['title', 'author__name', 'isbn']: one term against the
\* three fields of one Book.
SearchMatches(b, as, term) ==
    \/ IContains(b.title, term)
    \/ IContains(AuthorOf(b, as).name, term)
    \/ IContains(b.isbn, term)

\* SearchFilter.filter_queryset: every term has to match one of the fields.
SearchFilter(bs, as, params) ==
    {b \in bs : \A term \in get_search_terms(params) : SearchMatches(b, as, term)}

\* One term of an ordering: the field and whether a '-' precedes it.
OrderTerm(field, desc) == [field |-> field, desc |-> desc]

\* ordering_fields of the book list views.
BookOrderingFields == {"title", "publication_year", "created_at", "updated_at"}
\* ordering = ['-publication_year', 'title']
BookOrdering == <<OrderTerm("publication_year", TRUE), OrderTerm("title", FALSE)>>

\* OrderingFilter.get_ordering: the terms of the parameter that name an
\* ordering field, or the view's ordering when none is left.
get_ordering(params) ==
    LET valid == SelectSeq(params, LAMBDA t : t.field \in BookOrderingFields)
    IN IF valid # <<>> THEN valid ELSE BookOrdering

\* a < b for the values of one column.
KeyLess(field, a, b) ==
    IF field \in {"title", "name"} THEN StrLess(a, b) ELSE a < b

\* ORDER BY: row x has to come before row y.
RECURSIVE Precedes(_, _, _)
Precedes(ordering, x, y) ==
    IF ordering = <<>> THEN FALSE
    ELSE LET k == Head(ordering) IN
         IF x[k.field] = y[k.field] THEN Precedes(Tail(ordering), x, y)
         ELSE IF k.desc THEN KeyLess(k.field, y[k.field], x[k.field])
         ELSE KeyLess(k.field, x[k.field], y[k.field])

\* Mutant of OrderBy: the ordering is ignored.
RECURSIVE OrderBy_Unordered(_, _)
OrderBy_Unordered(S, ordering) ==
    IF S = {} THEN {<<>>}
    ELSE UNION {{<<x>> \o q : q \in OrderBy_Unordered(S \ {x}, ordering)} : x \in S}

\* queryset.order_by(*ordering): every sequence of the rows of S, each once,
\* that the ordering allows (the database returns rows with equal keys in
\* any order).
RECURSIVE OrderBy(_, _)
OrderBy(S, ordering) ==
    IF S = {} THEN {<<>>}
    ELSE UNION {{<<x>> \o q : q \in OrderBy(S \ {x}, ordering)} :
                   x \in {x \in S : \A y \in S : ~Precedes(ordering, y, x)}}

\* The query parameters of a GET request (an absent one is empty).
QueryData(search, ordering) == [search |-> search, ordering |-> ordering]

\* GET /books/?search=...&ordering=... (BookListCreateView, BookListView)
SearchBooks(auth, search, ordering) ==
    LET req == Request("searchBooks", auth, 0, FALSE, QueryData(search, ordering))
    IN /\ Idle
       /\ \E q \in OrderBy(SearchFilter(books, authors, search), get_ordering(ordering)) :
             call' = Response(req, 200, {}, 0,
                              [i \in 1..Len(q) |-> BookListItem(q[i], authors)])
       /\ UNCHANGED <<authors, books, nextAuthorId, nextBookId, now, current_year, shelf, library, workers>>

\* The columns of Book that order_by() accepts.
BookColumns ==
    {"id", "title", "publication_year", "author", "isbn", "created_at", "updated_at"}

\* Book.Meta.ordering = ['-publication_year', 'title']
BookMetaOrdering == <<OrderTerm("publication_year", TRUE), OrderTerm("title", FALSE)>>

\* Mutant of AuthorBooksSearch: the search is applied to the title only.
AuthorBooksSearch_TitleOnly(bs, search) ==
    IF search # <<>> THEN {b \in bs : IContains(b.title, search)} ELSE bs

\* author_books: Q(title__icontains=search) | Q(isbn__icontains=search),
\* applied when the parameter is not empty.
AuthorBooksSearch(bs, search) ==
    IF search # <<>>
    THEN {b \in bs : IContains(b.title, search) \/ IContains(b.isbn, search)}
    ELSE bs

\* Mutant of AuthorListItem: books_count counts the Books of every author.
AuthorListItem_AllBooks(a, bs) ==
    [id |-> a.id, name |-> a.name, books_count |-> Cardinality(bs),
     created_at |-> a.created_at, updated_at |-> a.updated_at]

\* AuthorListSerializer: an Author with the number of its Books.
AuthorListItem(a, bs) ==
    [id |-> a.id, name |-> a.name,
     books_count |-> Cardinality({b \in bs : b.author = a.id}),
     created_at |-> a.created_at, updated_at |-> a.updated_at]

\* The ordering parameter of a request: whether the request gives one, and
\* its terms.
OrderingParam(given, terms) == [given |-> given, terms |-> terms]

\* GET /authors/<author_id>/books/ (author_books).  The ordering parameter
\* defaults to '-publication_year'; it is handed to order_by() as one name,
\* and a name that is no column of Book raises FieldError, which the view
\* does not catch.  An empty parameter leaves the ordering of Book.Meta.
AuthorBooks(auth, author_id, search, ordering) ==
    LET req == Request("authorBooks", auth, author_id, FALSE, QueryData(search, ordering))
        author == CHOOSE a \in authors : a.id = author_id
        found == AuthorBooksSearch({b \in books : b.author = author_id}, search)
        o == IF ordering.given THEN ordering.terms
             ELSE <<OrderTerm("publication_year", TRUE)>>
    IN /\ Idle
       /\ IF author_id \notin AuthorIds(authors)
          THEN Refuse(req, 404, {"AuthorNotFound"})
          ELSE IF o # <<>> /\ (Len(o) > 1 \/ o[1].field \notin BookColumns)
          THEN Refuse(req, 500, {"FieldError"})
          ELSE /\ \E q \in OrderBy(found, IF o # <<>> THEN o ELSE BookMetaOrdering) :
                     call' = Response(req, 200, {}, author_id,
                                [author |-> AuthorListItem(author, books),
                                 books |-> [i \in 1..Len(q) |-> BookListItem(q[i], authors)],
                                 books_count |-> Cardinality(found)])
               /\ UNCHANGED <<authors, books, nextAuthorId, nextBookId, now, current_year, shelf, library, workers>>

\* Author.Meta.ordering = ['name']
AuthorMetaOrdering == <<OrderTerm("name", FALSE)>>

\* GET /authors/ (AuthorListCreateView, AuthorListView)
ListAuthors(auth) ==
    LET req == Request("listAuthors", auth, 0, FALSE, NoData)
    IN /\ Idle
       /\ \E q \in OrderBy(authors, AuthorMetaOrdering) :
             call' = Response(req, 200, {}, 0,
                              [i \in 1..Len(q) |-> AuthorListItem(q[i], books)])
       /\ UNCHANGED <<authors, books, nextAuthorId, nextBookId, now, current_year, shelf, library, workers>>

\* BookSerializer: the representation of one Book.
BookItem(b, as) ==
    [id |-> b.id, title |-> b.title, publication_year |-> b.publication_year,
     author |-> b.author, author_name |-> AuthorOf(b, as).name, isbn |-> b.isbn,
     created_at |-> b.created_at, updated_at |-> b.updated_at]

\* GET /authors/<pk>/ (AuthorDetailView, AuthorSerializer): the Author with
\* its Books nested, in the ordering of Book.Meta.
RetrieveAuthor(auth, id) ==
    LET req == Request("retrieveAuthor", auth, id, FALSE, NoData)
        author == CHOOSE a \in authors : a.id = id
        own == {b \in books : b.author = id}
    IN /\ Idle
       /\ IF id \notin AuthorIds(authors) THEN Refuse(req, 404, {"NotFound"})
          ELSE /\ \E q \in OrderBy(own, BookMetaOrdering) :
                     call' = Response(req, 200, {}, id,
                                <<[id |-> author.id, name |-> author.name,
                                   books |-> [i \in 1..Len(q) |-> BookItem(q[i], authors)],
                                   books_count |-> Cardinality(own),
                                   created_at |-> author.created_at,
                                   updated_at |-> author.updated_at]>>)
               /\ UNCHANGED <<authors, books, nextAuthorId, nextBookId, now, current_year, shelf, library, workers>>

\* GET /books/<pk>/ (BookDetailView, BookSerializer)
RetrieveBook(auth, id) ==
    LET req == Request("retrieveBook", auth, id, FALSE, NoData)
    IN /\ Idle
       /\ IF id \notin BookIds(books) THEN Refuse(req, 404, {"NotFound"})
          ELSE /\ call' = Response(req, 200, {}, id,
                              <<BookItem(CHOOSE b \in books : b.id = id, authors)>>)
               /\ UNCHANGED <<authors, books, nextAuthorId, nextBookId, now, current_year, shelf, library, workers>>

\* The slice [:5] of top_authors.
TopAuthorsLimit == 5

\* Min('publication_year') and Max('publication_year') over the Books.
MinYearOf(bs) ==
    CHOOSE y \in {b.publication_year : b \in bs} :
        \A b \in bs : y <= b.publication_year
MaxYearOf(bs) ==
    CHOOSE y \in {b.publication_year : b \in bs} :
        \A b \in bs : y >= b.publication_year

\* values('publication_year').annotate(count=Count('id')): one row a year.
YearCounts(bs) ==
    {[publication_year |-> y,
      count |-> Cardinality({b \in bs : b.publication_year = y})] :
        y \in {b.publication_year : b \in bs}}

\* Author.objects.annotate(book_count=Count('books'))
AnnotateBookCount(as, bs) ==
    {[id |-> a.id, name |-> a.name, created_at |-> a.created_at,
      updated_at |-> a.updated_at,
      book_count |-> Cardinality({b \in bs : b.author = a.id})] : a \in as}

\* Mutant of Slice: the slice takes one row more.
Slice_OneMore(q, n) == SubSeq(q, 1, IF Len(q) < n + 1 THEN Len(q) ELSE n + 1)

\* q[:n]
Slice(q, n) == SubSeq(q, 1, IF Len(q) < n THEN Len(q) ELSE n)

\* Mutant of Statistics_total_books: the Books of the first author only.
Statistics_total_books_FirstAuthor(bs) == Cardinality({b \in bs : b.author = 1})

\* Book.objects.count()
Statistics_total_books(bs) == Cardinality(bs)

\* GET /statistics/ (book_statistics).  order_by('-book_count') names no
\* second key, so authors of equal count come in any order.
Statistics(auth) ==
    LET req == Request("statistics", auth, 0, FALSE, NoData)
        total_books == Statistics_total_books(books)
        total_authors == Cardinality(authors)
    IN /\ Idle
       /\ IF total_books > 0
          THEN \E per_year \in OrderBy(YearCounts(books),
                                       <<OrderTerm("publication_year", FALSE)>>),
                  ranked \in OrderBy(AnnotateBookCount(authors, books),
                                     <<OrderTerm("book_count", TRUE)>>) :
                  LET top == Slice(ranked, TopAuthorsLimit) IN
                  call' = Response(req, 200, {}, 0,
                             [total_books |-> total_books,
                              total_authors |-> total_authors,
                              year_range |-> [earliest |-> MinYearOf(books),
                                              latest |-> MaxYearOf(books)],
                              books_per_year |-> per_year,
                              top_authors |->
                                  [i \in 1..Len(top) |->
                                      AuthorListItem(CHOOSE a \in authors : a.id = top[i].id,
                                                     books)]])
          ELSE call' = Response(req, 200, {}, 0,
                          [total_books |-> total_books,
                           total_authors |-> total_authors,
                           year_range |-> [earliest |-> None, latest |-> None],
                           books_per_year |-> <<>>,
                           top_authors |-> <<>>])
       /\ UNCHANGED <<authors, books, nextAuthorId, nextBookId, now, current_year, shelf, library, workers>>

(***************************************************************************)
(* The read requests on their own: the initial state draws a database the  *)
(* write requests can leave behind, and the requests only read it.         *)
(***************************************************************************)
\* Author rows: two of them share a name.
QueryAuthorRows ==
    { [id |-> 1, name |-> <<"A", "b", " ", "C">>, created_at |-> 0, updated_at |-> 0],
      [id |-> 2, name |-> <<"T", "e", "s", "t", " ", "A", "u", "t", "h", "o", "r">>,
       created_at |-> 1, updated_at |-> 9],
      [id |-> 3, name |-> <<"A", "b", " ", "C">>, created_at |-> 2, updated_at |-> 2] }

\* Book rows: titles repeat across authors, years repeat, one row was
\* updated after rows created later.
QueryBookRows ==
    { [id |-> 1, title |-> <<"A", "b">>, publication_year |-> FirstYear - 1, author |-> 1,
       isbn |-> Digits(10), created_at |-> 3, updated_at |-> 10],
      [id |-> 2, title |-> <<"b">>, publication_year |-> FirstYear, author |-> 1,
       isbn |-> None, created_at |-> 4, updated_at |-> 4],
      [id |-> 3, title |-> <<"A", "b">>, publication_year |-> FirstYear - 1, author |-> 2,
       isbn |-> None, created_at |-> 5, updated_at |-> 8],
      [id |-> 4, title |-> <<"C", " ", "a">>, publication_year |-> MinYear, author |-> 2,
       isbn |-> <<"9">> \o Digits(12), created_at |-> 6, updated_at |-> 6],
      [id |-> 5, title |-> <<"t", "e", "s", "t">>, publication_year |-> FirstYear, author |-> 3,
       isbn |-> None, created_at |-> 7, updated_at |-> 7] }

\* The search parameters clients send: none, a blank, one term in another
\* case, digits, two terms, a term nothing holds.
SearchInputs ==
    { <<>>, <<" ">>, <<"A", "B">>, <<"t", "e", "s", "T">>, <<"2", "3", "4">>,
      <<"b", " ", "a">>, <<"z">> }

\* The ordering parameters clients send: none, each ordering field in both
\* directions, two fields, a field that is no ordering field.
OrderingInputs ==
    {<<>>}
    \cup {<<OrderTerm(f, d)>> : f \in BookOrderingFields, d \in BOOLEAN}
    \cup {<<OrderTerm("publication_year", FALSE), OrderTerm("title", TRUE)>>,
          <<OrderTerm("isbn", FALSE)>>}

InitQuery ==
    /\ authors \in SUBSET QueryAuthorRows
    /\ books \in SUBSET {b \in QueryBookRows : b.author \in AuthorIds(authors)}
    /\ nextAuthorId = Cardinality(QueryAuthorRows) + 1
    /\ nextBookId = Cardinality(QueryBookRows) + 1
    /\ now = 11
    /\ current_year = FirstYear
    /\ call = NoCall
    /\ shelf = NoShelf
    /\ library = NoLibrary
    /\ workers = NoWorkers

GetSearchBooks ==
    Idle /\ \E auth \in BOOLEAN, search \in SearchInputs, ordering \in OrderingInputs :
               SearchBooks(auth, search, ordering)

\* The parameters of the author_books requests: no ordering parameter, an
\* empty one, Book columns, the name of another model's column, two names.
AuthorBooksSearchInputs ==
    { <<>>, <<" ">>, <<"t", "e", "s", "T">>, <<"2", "3", "4">>, <<"B">> }
AuthorBooksOrderingInputs ==
    {OrderingParam(FALSE, <<>>)} \cup
    {OrderingParam(TRUE, terms) :
        terms \in { <<>>,
                    <<OrderTerm("title", FALSE)>>, <<OrderTerm("title", TRUE)>>,
                    <<OrderTerm("created_at", TRUE)>>, <<OrderTerm("name", FALSE)>>,
                    <<OrderTerm("title", FALSE), OrderTerm("id", FALSE)>> }}

GetAuthorBooks ==
    Idle /\ \E auth \in BOOLEAN, id \in AuthorIdInputs,
               search \in AuthorBooksSearchInputs,
               ordering \in AuthorBooksOrderingInputs :
               AuthorBooks(auth, id, search, ordering)

GetAuthors == \E auth \in BOOLEAN : ListAuthors(auth)

NextQuery ==
    \/ GetSearchBooks
    \/ GetAuthorBooks
    \/ GetAuthors
    \/ Respond

SpecQuery == InitQuery /\ [][NextQuery]_vars

(***************************************************************************)
(* book_statistics on its own, over databases of more authors than the     *)
(* top list holds.                                                         *)
(***************************************************************************)
\* The authors of a database and the Books of one author.
MaxStatAuthors == 6
MaxBooksPerAuthor == 2

\* Author i of a database, created i-th.
StatAuthor(i) ==
    [id |-> i, name |-> <<UpperLetters[i]>>, created_at |-> i - 1, updated_at |-> i - 1]

\* The k-th Book of author i, its year one of three.
StatBook(i, k) ==
    [id |-> (i - 1) * MaxBooksPerAuthor + k, title |-> <<UpperLetters[k]>>,
     publication_year |-> FirstYear - ((i + 2 * k) % 3), author |-> i, isbn |-> None,
     created_at |-> MaxStatAuthors + (i - 1) * MaxBooksPerAuthor + k,
     updated_at |-> MaxStatAuthors + (i - 1) * MaxBooksPerAuthor + k]

InitStats ==
    /\ \E n \in 0..MaxStatAuthors, count \in [1..MaxStatAuthors -> 0..MaxBooksPerAuthor] :
          /\ \A i \in (n + 1)..MaxStatAuthors : count[i] = 0
          /\ authors = {StatAuthor(i) : i \in 1..n}
          /\ books = UNION {{StatBook(i, k) : k \in 1..count[i]} : i \in 1..n}
    /\ nextAuthorId = MaxStatAuthors + 1
    /\ nextBookId = MaxStatAuthors * MaxBooksPerAuthor + 1
    /\ now = MaxStatAuthors * (MaxBooksPerAuthor + 1) + 1
    /\ current_year = FirstYear
    /\ call = NoCall
    /\ shelf = NoShelf
    /\ library = NoLibrary
    /\ workers = NoWorkers

GetStatistics == \E auth \in BOOLEAN : Statistics(auth)

NextStats ==
    \/ GetStatistics
    \/ Respond

SpecStats == InitStats /\ [][NextStats]_vars

(***************************************************************************)
(* bookshelf/management/commands/setup_groups.py: the command runs         *)
(* statement by statement, each one committed on its own.                  *)
(***************************************************************************)
\* Runs of the command in one behaviour.
MaxRuns == 2

\* The requests of advanced-api-project are not involved.
ApiUnchanged ==
    UNCHANGED <<authors, books, nextAuthorId, nextBookId, now, current_year, call,
                library, workers>>

\* Mutant of GroupPermissions: Editors are given can_delete as well.
GroupPermissions_EditorsDelete(g) ==
    IF g = "Viewers" THEN {"can_view"} ELSE Codenames

\* The permissions handle() adds to each group.
GroupPermissions(g) ==
    IF g = "Viewers" THEN {"can_view"}
    ELSE IF g = "Editors" THEN {"can_view", "can_create", "can_edit"}
    ELSE {"can_view", "can_create", "can_edit", "can_delete"}

\* Mutant of Cleared: permissions.clear() is left out.
Cleared_Kept(permissions) == permissions

\* group.permissions.clear()
Cleared(permissions) == {}

\* manage.py setup_groups: the permissions are looked up (they are installed
\* with the Book model).
RunSetupGroups ==
    /\ shelf.pc \in {"idle", "done"}
    /\ shelf.runs < MaxRuns
    /\ shelf' = [shelf EXCEPT !.pc = "get_or_create", !.group = 1, !.created = {}]
    /\ ApiUnchanged

\* Group.objects.get_or_create(name=...), for the three groups in turn.
GetOrCreateGroup ==
    LET g == GroupNames[shelf.group] IN
    /\ shelf.pc = "get_or_create"
    /\ shelf' =
          [shelf EXCEPT
              !.groups[g] = IF @.exists THEN @ ELSE Group(TRUE, {}),
              !.created = IF shelf.groups[g].exists THEN @ ELSE @ \cup {g},
              !.group = IF shelf.group < Len(GroupNames) THEN @ + 1 ELSE 1,
              !.pc = IF shelf.group < Len(GroupNames) THEN @ ELSE "clear"]
    /\ ApiUnchanged

\* <group>.permissions.clear()
ClearPermissions ==
    LET g == GroupNames[shelf.group] IN
    /\ shelf.pc = "clear"
    /\ shelf' = [shelf EXCEPT !.groups[g].permissions = Cleared(@), !.pc = "add"]
    /\ ApiUnchanged

\* <group>.permissions.add(...); after the last group the command ends.
AddPermissions ==
    LET g == GroupNames[shelf.group] IN
    /\ shelf.pc = "add"
    /\ shelf' =
          [shelf EXCEPT
              !.groups[g].permissions = @ \cup GroupPermissions(g),
              !.group = IF shelf.group < Len(GroupNames) THEN @ + 1 ELSE 0,
              !.pc = IF shelf.group < Len(GroupNames) THEN "clear" ELSE "done",
              !.runs = IF shelf.group < Len(GroupNames) THEN @ ELSE @ + 1]
    /\ ApiUnchanged

\* The groups before the command runs: each is missing or holds any of the
\* permissions.
InitGroups ==
    /\ authors = {}
    /\ books = {}
    /\ nextAuthorId = 1
    /\ nextBookId = 1
    /\ now = 0
    /\ current_year = FirstYear
    /\ call = NoCall
    /\ shelf \in
          {[NoShelf EXCEPT !.groups = gs] :
              gs \in [{"Viewers", "Editors", "Admins"} ->
                         {Group(FALSE, {})} \cup
                         {Group(TRUE, ps) : ps \in SUBSET Codenames}]}
    /\ library = NoLibrary
    /\ workers = NoWorkers

NextGroups ==
    \/ RunSetupGroups
    \/ GetOrCreateGroup
    \/ ClearPermissions
    \/ AddPermissions

SpecGroups == InitGroups /\ [][NextGroups]_vars

(***************************************************************************)
(* bookshelf/views.py and bookshelf/forms.py: the views that write Books,  *)
(* behind login_required and permission_required.                          *)
(***************************************************************************)
\* Books on the shelf in one behaviour.
MaxShelfBooks == 2

\* BookForm: the least length of a title or author, and the years it takes.
FormMinLength == 2
FormMinYear == 1000
FormMaxYear == 2025

\* user.has_perm('bookshelf.<perm>'): an active superuser holds every
\* permission; an active user those given to it and to its groups; an
\* inactive or anonymous user none.
has_perm(user, perm, groups) ==
    /\ user.active
    /\ \/ user.superuser
       \/ perm \in user.user_permissions
       \/ \E g \in user.groups : groups[g].exists /\ perm \in groups[g].permissions

\* BookForm.clean_title and clean_author, after the CharField of the form
\* (required, trims whitespace).
BookForm_clean_text(raw) ==
    IF Strip(raw) = <<>> THEN Fail("required", raw)
    ELSE IF Len(Strip(raw)) < FormMinLength THEN Fail("TooShort", raw)
    ELSE Ok(Strip(raw))

\* BookForm.clean_publication_year: `if year:` lets 0 through.
BookForm_clean_publication_year(year) ==
    IF year # 0 /\ (year < FormMinYear \/ year > FormMaxYear)
    THEN Fail("YearOutOfRange", year)
    ELSE Ok(year)

\* The posted fields of a BookForm.
FormData(title, author, publication_year) ==
    [title |-> title, author |-> author, publication_year |-> publication_year]

\* form.is_valid()
BookForm_is_valid(data) ==
    /\ BookForm_clean_text(data.title).err = "ok"
    /\ BookForm_clean_text(data.author).err = "ok"
    /\ BookForm_clean_publication_year(data.publication_year).err = "ok"

\* The fields form.save() writes.
BookForm_cleaned(data) ==
    FormData(BookForm_clean_text(data.title).value,
             BookForm_clean_text(data.author).value,
             BookForm_clean_publication_year(data.publication_year).value)

\* A response that leaves the shelf as it is.
ShelfAnswer(view, method, book_id, status) ==
    /\ shelf' = [shelf EXCEPT !.last = ShelfResponse(view, method, book_id, status)]
    /\ ApiUnchanged

\* Mutant of Gate: permission_required is left out.
Gate_LoginOnly(method, csrf, perm) ==
    IF method = "POST" /\ ~csrf THEN 403
    ELSE IF ~shelf.user.authenticated THEN 302
    ELSE 0

\* CsrfViewMiddleware, login_required and permission_required in front of a
\* view: the status they answer with, or 0 when they let the request in.
Gate(method, csrf, perm) ==
    IF method = "POST" /\ ~csrf THEN 403
    ELSE IF ~shelf.user.authenticated THEN 302
    ELSE IF ~has_perm(shelf.user, perm, shelf.groups) THEN 403
    ELSE 0

\* book_create
book_create(method, csrf, data) ==
    LET gate == Gate(method, csrf, "can_create") IN
    IF gate # 0 THEN ShelfAnswer("book_create", method, 0, gate)
    ELSE IF method = "POST" /\ BookForm_is_valid(data)
    THEN /\ shelf.nextId <= MaxShelfBooks
         /\ shelf' =
               [shelf EXCEPT
                   !.books = @ \cup
                       {[id |-> shelf.nextId, title |-> BookForm_cleaned(data).title,
                         author |-> BookForm_cleaned(data).author,
                         publication_year |-> BookForm_cleaned(data).publication_year,
                         created_by |-> shelf.user.name]},
                   !.nextId = @ + 1,
                   !.last = ShelfResponse("book_create", method, shelf.nextId, 302)]
         /\ ApiUnchanged
    ELSE ShelfAnswer("book_create", method, 0, 200)

\* Mutant of book_edit: the Book is looked up before the caller is checked.
book_edit_LookupFirst(method, csrf, book_id, data) ==
    IF ~\E b \in shelf.books : b.id = book_id
    THEN ShelfAnswer("book_edit", method, book_id, 404)
    ELSE ShelfAnswer("book_edit", method, book_id, Gate(method, csrf, "can_edit"))

\* book_edit
book_edit(method, csrf, book_id, data) ==
    LET gate == Gate(method, csrf, "can_edit")
        book == CHOOSE b \in shelf.books : b.id = book_id
    IN
    IF gate # 0 THEN ShelfAnswer("book_edit", method, book_id, gate)
    ELSE IF ~\E b \in shelf.books : b.id = book_id
    THEN ShelfAnswer("book_edit", method, book_id, 404)
    ELSE IF method = "POST" /\ BookForm_is_valid(data)
    THEN /\ shelf' =
               [shelf EXCEPT
                   !.books = (@ \ {book}) \cup
                       {[book EXCEPT
                           !.title = BookForm_cleaned(data).title,
                           !.author = BookForm_cleaned(data).author,
                           !.publication_year = BookForm_cleaned(data).publication_year]},
                   !.last = ShelfResponse("book_edit", method, book_id, 302)]
         /\ ApiUnchanged
    ELSE ShelfAnswer("book_edit", method, book_id, 200)

\* book_delete: require_http_methods(["POST"]) stands behind the two checks.
book_delete(method, csrf, book_id) ==
    LET gate == Gate(method, csrf, "can_delete") IN
    IF gate # 0 THEN ShelfAnswer("book_delete", method, book_id, gate)
    ELSE IF method # "POST" THEN ShelfAnswer("book_delete", method, book_id, 405)
    ELSE IF ~\E b \in shelf.books : b.id = book_id
    THEN ShelfAnswer("book_delete", method, book_id, 404)
    ELSE /\ shelf' =
               [shelf EXCEPT
                   !.books = {b \in @ : b.id # book_id},
                   !.last = ShelfResponse("book_delete", method, book_id, 302)]
         /\ ApiUnchanged

\* book_detail: a caller without can_view is sent to the login page before
\* the Book is looked up.
book_detail(method, csrf, book_id) ==
    IF method = "POST" /\ ~csrf THEN ShelfAnswer("book_detail", method, book_id, 403)
    ELSE IF ~has_perm(shelf.user, "can_view", shelf.groups)
    THEN ShelfAnswer("book_detail", method, book_id, 302)
    ELSE IF ~\E b \in shelf.books : b.id = book_id
    THEN ShelfAnswer("book_detail", method, book_id, 404)
    ELSE ShelfAnswer("book_detail", method, book_id, 200)

(***************************************************************************)
(* The bookshelf in use: the groups as setup_groups leaves them, the users *)
(* of create_test_users and others beside them, and the catalogue of       *)
(* advanced-api-project open to the same callers.                          *)
(***************************************************************************)
\* The groups after manage.py setup_groups.
InstalledGroups ==
    [g \in {"Viewers", "Editors", "Admins"} |-> Group(TRUE, GroupPermissions(g))]

\* The users who log in: the three of create_test_users, a superuser, and a
\* user of no group given can_delete alone.
ShelfUsers ==
    { User("viewer1", TRUE, TRUE, FALSE, {"Viewers"}, {}),
      User("editor1", TRUE, TRUE, FALSE, {"Editors"}, {}),
      User("admin1", TRUE, TRUE, FALSE, {"Admins"}, {}),
      User("root", TRUE, TRUE, TRUE, {}, {}),
      User("remover", TRUE, TRUE, FALSE, {}, {"can_delete"}) }

\* The forms clients post: valid ones at both ends of the years and with no
\* year, a title and an author too short once trimmed, a year past the end.
FormInputs ==
    { FormData(<<"A", "b">>, <<"C", "d">>, FormMinYear),
      FormData(<<" ", "C", "d", " ">>, <<"A", "b">>, FormMaxYear),
      FormData(<<"A", "b">>, <<"C", "d">>, 0),
      FormData(<<" ", "A", " ">>, <<"C", "d">>, FormMinYear),
      FormData(<<"A", "b">>, <<"C">>, FormMinYear),
      FormData(<<"A", "b">>, <<"C", "d">>, FormMaxYear + 1) }

\* Book ids clients name: every id assigned so far and one never assigned.
ShelfIdInputs == 1..shelf.nextId

Methods == {"GET", "POST"}

InitShelf ==
    /\ authors = {a \in QueryAuthorRows : a.id = 1}
    /\ books = {b \in QueryBookRows : b.author = 1}
    /\ nextAuthorId = 2
    /\ nextBookId = 3
    /\ now = 11
    /\ current_year = FirstYear
    /\ call = NoCall
    /\ shelf = [NoShelf EXCEPT !.groups = InstalledGroups, !.runs = 1, !.pc = "done"]
    /\ library = NoLibrary
    /\ workers = NoWorkers

\* A user logs in, or the session ends.
Login ==
    /\ Idle
    /\ \E u \in ShelfUsers \cup {AnonymousUser} :
          shelf' = [shelf EXCEPT !.user = u, !.last = NoShelfResponse]
    /\ ApiUnchanged

ShelfCreate ==
    Idle /\ \E method \in Methods, csrf \in BOOLEAN, data \in FormInputs :
               book_create(method, csrf, data)
ShelfEdit ==
    Idle /\ \E method \in Methods, csrf \in BOOLEAN, id \in ShelfIdInputs,
               data \in FormInputs :
               book_edit(method, csrf, id, data)
ShelfDelete ==
    Idle /\ \E method \in Methods, csrf \in BOOLEAN, id \in ShelfIdInputs :
               book_delete(method, csrf, id)

\* DELETE /books/<pk>/ of the catalogue, sent by the user of the session.
ApiDelete == Idle /\ \E id \in BookIdInputs : DeleteBook(shelf.user.authenticated, id)

NextShelf ==
    \/ Login
    \/ ShelfCreate
    \/ ShelfEdit
    \/ ShelfDelete
    \/ ApiDelete
    \/ Respond

SpecShelf == InitShelf /\ [][NextShelf]_vars

(***************************************************************************)
(* api/views.py: the requests of callers who are not authenticated, on     *)
(* the stores of the read requests.                                        *)
(***************************************************************************)
AnonymousPostAuthor ==
    Idle /\ \E name \in NameInputs :
               CreateAuthor(FALSE, AuthorData(name))
AnonymousPutPatchAuthor ==
    Idle /\ \E id \in AuthorIdInputs, partial \in BOOLEAN, name \in NameInputs :
               UpdateAuthor(FALSE, id, partial, AuthorData(name))
AnonymousDeleteAuthor ==
    Idle /\ \E id \in AuthorIdInputs : DeleteAuthor(FALSE, id)
AnonymousPostBook ==
    Idle /\ \E data \in CreateBookInputs(current_year) :
               CreateBook(FALSE, data)
AnonymousPatchBook ==
    Idle /\ \E id \in BookIdInputs, data \in PatchBookInputs(current_year) :
               UpdateBook(FALSE, id, TRUE, data)
AnonymousPutBook ==
    Idle /\ \E id \in BookIdInputs, data \in PutBookInputs(current_year) :
               UpdateBook(FALSE, id, FALSE, data)
AnonymousDeleteBook ==
    Idle /\ \E id \in BookIdInputs : DeleteBook(FALSE, id)
AnonymousGetAuthors == Idle /\ ListAuthors(FALSE)
AnonymousGetAuthor == Idle /\ \E id \in AuthorIdInputs : RetrieveAuthor(FALSE, id)
AnonymousGetBooks ==
    Idle /\ \E search \in {<<>>, <<"A", "B">>}, ordering \in OrderingInputs :
               SearchBooks(FALSE, search, ordering)
AnonymousGetBook == Idle /\ \E id \in BookIdInputs : RetrieveBook(FALSE, id)
AnonymousGetAuthorBooks ==
    Idle /\ \E id \in AuthorIdInputs, ordering \in AuthorBooksOrderingInputs :
               AuthorBooks(FALSE, id, <<>>, ordering)
AnonymousGetStatistics == Idle /\ Statistics(FALSE)

NextAnonymous ==
    \/ AnonymousPostAuthor
    \/ AnonymousPutPatchAuthor
    \/ AnonymousDeleteAuthor
    \/ AnonymousPostBook
    \/ AnonymousPatchBook
    \/ AnonymousPutBook
    \/ AnonymousDeleteBook
    \/ AnonymousGetAuthors
    \/ AnonymousGetAuthor
    \/ AnonymousGetBooks
    \/ AnonymousGetBook
    \/ AnonymousGetAuthorBooks
    \/ AnonymousGetStatistics
    \/ Respond

SpecAnonymous == InitQuery /\ [][NextAnonymous]_vars

(***************************************************************************)
(* django-models, relationship_app/views.py: the profile made for a new    *)
(* user, the role checks and the views behind them, and the Book views     *)
(* behind permission_required.  The settings of the project are not in the *)
(* repository: every POST is taken as one CsrfViewMiddleware lets through. *)
(***************************************************************************)
\* Books of relationship_app in one behaviour.
MaxLibraryBooks == 2

\* The API, the bookshelf and the workers are not involved.
LibraryOnly ==
    UNCHANGED <<authors, books, nextAuthorId, nextBookId, now, current_year, call,
                shelf, workers>>

\* The session names a registered user, or nobody.
LibrarySession ==
    library.user = "" \/ (library.user \in LibraryNames /\ library.profiles[library.user] # "NoUser")

\* request.user: the user logged in under a name, or AnonymousUser (which
\* has no userprofile attribute and no permission).
LibraryUser(lib) ==
    IF lib.user = ""
    THEN [name |-> "", authenticated |-> FALSE, profile |-> "NoProfile", permissions |-> {}]
    ELSE [name |-> lib.user, authenticated |-> TRUE,
          profile |-> lib.profiles[lib.user], permissions |-> lib.permissions[lib.user]]

\* create_user_profile, the post_save receiver: UserProfile.objects.create
\* (user=instance) names no role, and role has no default, so the row holds
\* the empty string.
create_user_profile(created, profile) == IF created THEN "" ELSE profile

\* Mutant of is_admin: a Librarian passes as well.
is_admin_OrLibrarian(user) == user.profile \in {"Admin", "Librarian"}

\* is_admin, is_librarian, is_member: a missing userprofile is caught (by
\* try/except in one variant, by hasattr in the other) and gives False.
is_admin(user) == user.profile # "NoProfile" /\ user.profile = "Admin"
is_librarian(user) == user.profile # "NoProfile" /\ user.profile = "Librarian"
is_member(user) == user.profile # "NoProfile" /\ user.profile = "Member"

\* A response of relationship_app that writes nothing.
LibraryAnswer(view, method, book_id, status) ==
    /\ library' = [library EXCEPT !.last = LibraryResponse(view, method, book_id, status)]
    /\ LibraryOnly

\* RegisterView.form_valid / register_view: form.save() inserts the User and
\* post_save runs create_user_profile.
Register ==
    /\ \E n \in LibraryNames :
          /\ library.profiles[n] = "NoUser"
          /\ library' =
                [library EXCEPT
                    !.profiles[n] = create_user_profile(TRUE, "NoProfile"),
                    !.permissions[n] = {},
                    !.last = LibraryResponse("register", "POST", 0, 302)]
    /\ LibraryOnly

\* CustomLoginView / CustomLogoutView
LibraryLogin ==
    /\ \E n \in {m \in LibraryNames : library.profiles[m] # "NoUser"} \cup {""} :
          library' = [library EXCEPT !.user = n,
                                     !.last = LibraryResponse("login", "POST", 0, 302)]
    /\ LibraryOnly

\* admin_view, librarian_view, member_view: user_passes_test sends a user who
\* fails the check to the login page.
admin_view ==
    /\ LibrarySession
    /\ LibraryAnswer("admin_view", "GET", 0,
                     IF is_admin(LibraryUser(library)) THEN 200 ELSE 302)
librarian_view ==
    /\ LibrarySession
    /\ LibraryAnswer("librarian_view", "GET", 0,
                     IF is_librarian(LibraryUser(library)) THEN 200 ELSE 302)
member_view ==
    /\ LibrarySession
    /\ LibraryAnswer("member_view", "GET", 0,
                     IF is_member(LibraryUser(library)) THEN 200 ELSE 302)

\* Mutant of LibraryGate: permission_required is left out.
LibraryGate_LoginOnly(user, perm) == IF ~user.authenticated THEN 302 ELSE 0

\* login_required and permission_required(..., raise_exception=True) in
\* front of a view: the status they answer with, or 0 when they let the
\* request in.
LibraryGate(user, perm) ==
    IF ~user.authenticated THEN 302
    ELSE IF perm \notin user.permissions THEN 403
    ELSE 0

\* add_book: BookForm needs a title.
add_book(method, title) ==
    LET gate == LibraryGate(LibraryUser(library), "can_add_book") IN
    IF gate # 0 THEN LibraryAnswer("add_book", method, 0, gate)
    ELSE IF method = "POST" /\ title # <<>>
    THEN /\ library.nextId <= MaxLibraryBooks
         /\ library' =
               [library EXCEPT
                   !.books = @ \cup {[id |-> library.nextId, title |-> title]},
                   !.nextId = @ + 1,
                   !.last = LibraryResponse("add_book", method, library.nextId, 302)]
         /\ LibraryOnly
    ELSE LibraryAnswer("add_book", method, 0, 200)

\* edit_book
edit_book(method, book_id, title) ==
    LET gate == LibraryGate(LibraryUser(library), "can_change_book") IN
    IF gate # 0 THEN LibraryAnswer("edit_book", method, book_id, gate)
    ELSE IF ~\E b \in library.books : b.id = book_id
    THEN LibraryAnswer("edit_book", method, book_id, 404)
    ELSE IF method = "POST" /\ title # <<>>
    THEN /\ library' =
               [library EXCEPT
                   !.books = {IF b.id = book_id THEN [b EXCEPT !.title = title] ELSE b :
                                 b \in @},
                   !.last = LibraryResponse("edit_book", method, book_id, 302)]
         /\ LibraryOnly
    ELSE LibraryAnswer("edit_book", method, book_id, 200)

\* Mutant of delete_book: the Book is deleted whatever the method.
delete_book_AnyMethod(method, book_id) ==
    LET gate == LibraryGate(LibraryUser(library), "can_delete_book") IN
    IF gate # 0 THEN LibraryAnswer("delete_book", method, book_id, gate)
    ELSE IF ~\E b \in library.books : b.id = book_id
    THEN LibraryAnswer("delete_book", method, book_id, 404)
    ELSE /\ library' =
               [library EXCEPT
                   !.books = {b \in @ : b.id # book_id},
                   !.last = LibraryResponse("delete_book", method, book_id, 302)]
         /\ LibraryOnly

\* delete_book: a GET shows the confirmation page.
delete_book(method, book_id) ==
    LET gate == LibraryGate(LibraryUser(library), "can_delete_book") IN
    IF gate # 0 THEN LibraryAnswer("delete_book", method, book_id, gate)
    ELSE IF ~\E b \in library.books : b.id = book_id
    THEN LibraryAnswer("delete_book", method, book_id, 404)
    ELSE IF method = "POST"
    THEN /\ library' =
               [library EXCEPT
                   !.books = {b \in @ : b.id # book_id},
                   !.last = LibraryResponse("delete_book", method, book_id, 302)]
         /\ LibraryOnly
    ELSE LibraryAnswer("delete_book", method, book_id, 200)

\* The titles clients post: two titles and a missing one.
LibraryTitles == {<<"A", "b">>, <<"C", "d">>, <<>>}

\* Book ids clients name: every id assigned so far and one never assigned.
LibraryIdInputs == 1..library.nextId

LibraryAdd ==
    LibrarySession /\ \E method \in Methods, title \in LibraryTitles : add_book(method, title)
LibraryEdit ==
    LibrarySession /\ \E method \in Methods, id \in LibraryIdInputs, title \in LibraryTitles :
                         edit_book(method, id, title)
LibraryDelete ==
    LibrarySession /\ \E method \in Methods, id \in LibraryIdInputs : delete_book(method, id)

\* The users the site starts with hold roles given through the admin site;
\* alice holds any of the Book permissions, bob none.
InitLibrary ==
    /\ authors = {}
    /\ books = {}
    /\ nextAuthorId = 1
    /\ nextBookId = 1
    /\ now = 0
    /\ current_year = FirstYear
    /\ call = NoCall
    /\ shelf = NoShelf
    /\ workers = NoWorkers
    /\ \E ps \in [LibraryNames -> Roles \cup {"NoUser"}], perms \in SUBSET LibraryCodenames :
          library = [NoLibrary EXCEPT
                        !.profiles = ps,
                        !.permissions["alice"] = IF ps["alice"] = "NoUser" THEN {} ELSE perms,
                        !.books = {[id |-> 1, title |-> <<"A", "b">>]},
                        !.nextId = 2]

NextLibrary ==
    \/ Register
    \/ LibraryLogin
    \/ admin_view
    \/ librarian_view
    \/ member_view
    \/ LibraryAdd
    \/ LibraryEdit
    \/ LibraryDelete

SpecLibrary == InitLibrary /\ [][NextLibrary]_vars

(***************************************************************************)
(* api/views.py, POST /books/ served to two callers at once: each request  *)
(* validates its body, runs Book.save (full_clean, then the INSERT), and   *)
(* the statements of the two interleave.  The table carries the unique     *)
(* index of Book.Meta.unique_together.                                     *)
(***************************************************************************)
\* The requests served at once.
MaxWorkers == 2

\* A request part-way through BookListCreateView.create.
Worker(pc, data, instance, status, errors) ==
    [pc |-> pc, data |-> data, instance |-> instance, status |-> status, errors |-> errors]

\* Mutant of IntegrityClash: the table has no unique index.
IntegrityClash_NoIndex(b, bs) == FALSE

\* The unique index on (title, author_id): the INSERT of a row whose pair is
\* stored raises IntegrityError.
IntegrityClash(b, bs) == \E o \in bs : UniqueTogether(b.title, b.author, o)

\* The rows and clocks a worker's step leaves alone.
WorkerReads ==
    UNCHANGED <<authors, books, nextAuthorId, nextBookId, now, current_year, call,
                shelf, library>>

\* serializer.is_valid(raise_exception=True): the fields, then the
\* UniqueTogetherValidator and validate(), against the rows stored now.
WorkerValidate ==
    /\ \E w \in DOMAIN workers :
          LET v == BookSerializerValidate(workers[w].data, NoBook, FALSE, authors, books,
                                          current_year)
          IN /\ workers[w].pc = "validate"
             /\ workers' =
                   [workers EXCEPT
                       ![w] = IF v.errors # {}
                              THEN Worker("done", @.data, NoBook, 400, v.errors)
                              ELSE Worker("full_clean", @.data, BookApply(v.value, NoBook),
                                          0, {})]
    /\ WorkerReads

\* Book.save: self.full_clean(), against the rows stored now; its
\* ValidationError is not caught by the view.
WorkerFullClean ==
    /\ \E w \in DOMAIN workers :
          LET fc == BookFullClean(workers[w].instance, authors, books, current_year)
          IN /\ workers[w].pc = "full_clean"
             /\ workers' =
                   [workers EXCEPT
                       ![w] = IF fc.errors # {}
                              THEN Worker("done", @.data, fc.value, 500, fc.errors)
                              ELSE Worker("insert", @.data, fc.value, 0, {})]
    /\ WorkerReads

\* Book.save: super().save(), the INSERT; an IntegrityError is not caught by
\* the view.
WorkerInsert ==
    \E w \in DOMAIN workers :
        LET b == [workers[w].instance EXCEPT
                     !.id = nextBookId, !.created_at = now, !.updated_at = now]
        IN /\ workers[w].pc = "insert"
           /\ IF IntegrityClash(b, books)
              THEN /\ workers' = [workers EXCEPT
                                     ![w] = Worker("done", @.data, @.instance, 500,
                                                   {"IntegrityError"})]
                   /\ WorkerReads
              ELSE /\ books' = books \cup {b}
                   /\ nextBookId' = nextBookId + 1
                   /\ now' = now + 1
                   /\ workers' = [workers EXCEPT ![w] = Worker("done", @.data, b, 201, {})]
                   /\ UNCHANGED <<authors, nextAuthorId, current_year, call, shelf, library>>

\* The bodies the two callers post: one title, the same title with blanks
\* around it, and another title, all for Author 1.
WorkerInputs ==
    {BookData(BookWritable, t, FirstYear, 1, None) :
        t \in {<<"A", "b">>, <<" ", "A", "b">>, <<"C", "d">>}}

\* One Author, no Book or one, and two requests received.
InitWorkers ==
    /\ authors = {a \in QueryAuthorRows : a.id = 1}
    /\ books \in {{}, {b \in QueryBookRows : b.id = 1}}
    /\ nextAuthorId = 2
    /\ nextBookId = 3
    /\ now = 11
    /\ current_year = FirstYear
    /\ call = NoCall
    /\ shelf = NoShelf
    /\ library = NoLibrary
    /\ workers \in [1..MaxWorkers -> {Worker("validate", d, NoBook, 0, {}) : d \in WorkerInputs}]

NextWorkers ==
    \/ WorkerValidate
    \/ WorkerFullClean
    \/ WorkerInsert

SpecWorkers == InitWorkers /\ [][NextWorkers]_vars

(***************************************************************************)
(* The two places that validate a Book, run on the same raw values:        *)
(* BookSerializer's validate_<field> methods and Book.save's full_clean.   *)
(***************************************************************************)
\* What one layer says of an input: its errors and the title and isbn it
\* leaves.
Verdict(errors, title, isbn) == [errors |-> errors, title |-> title, isbn |-> isbn]

\* validate_title, validate_publication_year and validate_isbn on the values.
SerializerLayer(title, year, isbn, cy) ==
    LET t == validate_title(title)
        y == validate_publication_year(year, cy)
        i == validate_isbn(isbn)
    IN Verdict({t.err, y.err, i.err} \ {"ok"}, t.value, i.value)

\* Book(title=..., publication_year=..., isbn=..., author=author).save() up to
\* the end of full_clean.
ModelLayer(title, year, author, isbn, as, cy) ==
    LET b == [NoBook EXCEPT !.title = title, !.publication_year = year,
                            !.author = author, !.isbn = isbn]
        r == BookFullClean(b, as, {}, cy)
    IN Verdict(r.errors, r.value.title, r.value.isbn)

LayerTitles == TitleInputs \cup { <<>>, <<"A", "b", "\n">> }
LayerIsbns == IsbnSamples \cup { <<"\t">> \o Digits(IsbnShort), Digits(IsbnLong) \o <<"\n">> }

\* One Author and one set of raw values waiting to be validated.
InitLayers ==
    /\ authors = {a \in QueryAuthorRows : a.id = 1}
    /\ books = {}
    /\ nextAuthorId = 2
    /\ nextBookId = 1
    /\ now = 0
    /\ current_year \in FirstYear..LastYear
    /\ call \in {Request("book_layers", TRUE, 0, FALSE, BookData(BookWritable, t, y, 1, i)) :
                    t \in LayerTitles, y \in YearSamples(current_year), i \in LayerIsbns}
    /\ shelf = NoShelf
    /\ library = NoLibrary
    /\ workers = NoWorkers

\* Both layers are run on the values of the call.
ValidateLayers ==
    /\ call.op = "book_layers"
    /\ call.status = 0
    /\ LET d == call.data
           ser == SerializerLayer(d.title, d.publication_year, d.isbn, current_year)
           mod == ModelLayer(d.title, d.publication_year, d.author, d.isbn, authors,
                             current_year)
       IN call' = Response(call, IF ser.errors = {} THEN 200 ELSE 400, ser.errors, 0,
                           <<ser, mod>>)
    /\ UNCHANGED <<authors, books, nextAuthorId, nextBookId, now, current_year, shelf,
                   library, workers>>

NextLayers == ValidateLayers

SpecLayers == InitLayers /\ [][NextLayers]_vars

(***************************************************************************)
(* api/views.py, GET /statistics/ while other callers write: the view      *)
(* sends its queries one by one, outside any transaction, and each query   *)
(* sees the rows stored when it runs.                                      *)
(***************************************************************************)
\* A book_statistics request part-way through: the query it is at and what
\* the earlier ones gave.  A year that is None is the empty set, and a year
\* y is {y}.
StatisticsWorker(pc, total_books, total_authors, earliest, latest, per_year, top) ==
    [pc |-> pc, total_books |-> total_books, total_authors |-> total_authors,
     earliest |-> earliest, latest |-> latest, books_per_year |-> per_year,
     top_authors |-> top]

\* Mutant of StatisticsQueries: every query reads the rows the first one saw.
StatisticsQueries_Snapshot(w, as, bs) ==
    {StatisticsWorker("done", Cardinality(bs), Cardinality(as),
                      IF bs = {} THEN {} ELSE {MinYearOf(bs)},
                      IF bs = {} THEN {} ELSE {MaxYearOf(bs)},
                      per_year, <<>>) :
        per_year \in OrderBy(YearCounts(bs), <<OrderTerm("publication_year", FALSE)>>)}

\* The request after its next query, the rows being as and bs: the two
\* counts; then, when a Book was counted, Min, Max, the Books of each year
\* and the top authors, the last two read when the Response is built.
StatisticsQueries(w, as, bs) ==
    IF w.pc = "count_books"
    THEN {[w EXCEPT !.pc = "count_authors", !.total_books = Statistics_total_books(bs)]}
    ELSE IF w.pc = "count_authors"
    THEN {[w EXCEPT !.pc = IF w.total_books > 0 THEN "min" ELSE "done",
                    !.total_authors = Cardinality(as)]}
    ELSE IF w.pc = "min"
    THEN {[w EXCEPT !.pc = "max", !.earliest = IF bs = {} THEN {} ELSE {MinYearOf(bs)}]}
    ELSE IF w.pc = "max"
    THEN {[w EXCEPT !.pc = "per_year", !.latest = IF bs = {} THEN {} ELSE {MaxYearOf(bs)}]}
    ELSE IF w.pc = "per_year"
    THEN {[w EXCEPT !.pc = "top_authors", !.books_per_year = per_year] :
             per_year \in OrderBy(YearCounts(bs), <<OrderTerm("publication_year", FALSE)>>)}
    ELSE {[w EXCEPT !.pc = "done",
                    !.top_authors = [i \in 1..Len(Slice(ranked, TopAuthorsLimit)) |->
                                        ranked[i].id]] :
             ranked \in OrderBy(AnnotateBookCount(as, bs), <<OrderTerm("book_count", TRUE)>>)}

\* GET /statistics/ is received.
StatisticsStart ==
    /\ workers = NoWorkers
    /\ workers' = <<StatisticsWorker("count_books", 0, 0, {}, {}, <<>>, <<>>)>>
    /\ WorkerReads

\* The next query of book_statistics.
StatisticsQuery ==
    /\ workers # NoWorkers
    /\ workers[1].pc # "done"
    /\ \E w \in StatisticsQueries(workers[1], authors, books) : workers' = <<w>>
    /\ WorkerReads

\* The writes of other callers, one Book body standing for all.
SnapshotPostBook ==
    Idle /\ CreateBook(TRUE, BookData(BookWritable, <<"N", "e", "w">>, MinYear, 1, None))
SnapshotDeleteBook == Idle /\ \E id \in BookIds(books) : DeleteBook(TRUE, id)
SnapshotDeleteAuthor == Idle /\ \E id \in AuthorIds(authors) : DeleteAuthor(TRUE, id)

\* Two Authors and any of their Books.
InitSnapshot ==
    /\ authors = {a \in QueryAuthorRows : a.id \in {1, 2}}
    /\ books \in SUBSET {b \in QueryBookRows : b.author \in {1, 2} /\ b.id # 1}
    /\ nextAuthorId = 4
    /\ nextBookId = 6
    /\ now = 0
    /\ current_year = FirstYear
    /\ call = NoCall
    /\ shelf = NoShelf
    /\ library = NoLibrary
    /\ workers = NoWorkers

NextSnapshot ==
    \/ StatisticsStart
    \/ StatisticsQuery
    \/ SnapshotPostBook
    \/ SnapshotDeleteBook
    \/ SnapshotDeleteAuthor
    \/ Respond

SpecSnapshot == InitSnapshot /\ [][NextSnapshot]_vars

(***************************************************************************)
(* bookshelf/management/commands/create_test_users.py: the command runs    *)
(* statement by statement, each one committed on its own.                  *)
(***************************************************************************)
\* Runs of create_test_users in one behaviour.
MaxJobRuns == 2

\* test_users: each username with the group it is assigned.
TestUsers ==
    << [username |-> "viewer1", group |-> "Viewers"],
       [username |-> "editor1", group |-> "Editors"],
       [username |-> "admin1", group |-> "Admins"] >>

\* The three Group.objects.get(name=...) all find their group.
GroupsFound == \A g \in {"Viewers", "Editors", "Admins"} : shelf.groups[g].exists

\* manage.py create_test_users: without the three groups it reports
\* 'Groups not found' and returns.
RunCreateTestUsers ==
    /\ shelf.job.pc \in {"idle", "done", "failed"}
    /\ shelf.job.runs < MaxJobRuns
    /\ shelf' =
          [shelf EXCEPT
              !.job = IF GroupsFound
                      THEN [@ EXCEPT !.pc = "get_or_create", !.index = 1, !.user = 0,
                                     !.before = shelf.users, !.output = ""]
                      ELSE [@ EXCEPT !.pc = "failed", !.index = 0, !.user = 0,
                                     !.before = shelf.users,
                                     !.output = "Groups not found", !.runs = @ + 1]]
    /\ ApiUnchanged

\* Mutant of get_or_create: a row is inserted whether or not one is there.
get_or_create_Create(users, username, id) ==
    [id |-> id, username |-> username, groups |-> {}]

\* User.objects.get_or_create(username=...): the row of that username, or a
\* new one under the next id.
get_or_create(users, username, id) ==
    IF \E u \in users : u.username = username
    THEN CHOOSE u \in users : u.username = username
    ELSE [id |-> id, username |-> username, groups |-> {}]

GetOrCreateUser ==
    LET user == get_or_create(shelf.users, TestUsers[shelf.job.index].username,
                              shelf.nextUserId)
    IN /\ shelf.job.pc = "get_or_create"
       /\ shelf' =
             [shelf EXCEPT
                 !.users = @ \cup {user},
                 !.nextUserId = IF user \in shelf.users THEN @ ELSE @ + 1,
                 !.job = [@ EXCEPT !.pc = "clear", !.user = user.id]]
       /\ ApiUnchanged

\* user.groups.clear()
ClearUserGroups ==
    /\ shelf.job.pc = "clear"
    /\ shelf' =
          [shelf EXCEPT
              !.users = {IF u.id = shelf.job.user THEN [u EXCEPT !.groups = {}] ELSE u :
                            u \in @},
              !.job = [@ EXCEPT !.pc = "add"]]
    /\ ApiUnchanged

\* user.groups.add(group); after the last test user the command ends.
AddUserGroups ==
    LET last == shelf.job.index = Len(TestUsers) IN
    /\ shelf.job.pc = "add"
    /\ shelf' =
          [shelf EXCEPT
              !.users = {IF u.id = shelf.job.user
                         THEN [u EXCEPT !.groups = @ \cup {TestUsers[shelf.job.index].group}]
                         ELSE u : u \in @},
              !.job = [@ EXCEPT !.pc = IF last THEN "done" ELSE "get_or_create",
                                !.index = IF last THEN 0 ELSE @ + 1,
                                !.user = 0,
                                !.output = IF last THEN "Test users created successfully!"
                                           ELSE @,
                                !.runs = IF last THEN @ + 1 ELSE @]]
    /\ ApiUnchanged

\* The memberships a test user may hold before the command runs.
EarlierGroups == {{}, {"Admins"}, {"Viewers", "Editors"}}

\* Before the command: each group is there (as setup_groups leaves it) or
\* not, and each test user is missing or is there with earlier memberships
\* in the groups that exist.
InitUsers ==
    /\ authors = {}
    /\ books = {}
    /\ nextAuthorId = 1
    /\ nextBookId = 1
    /\ now = 0
    /\ current_year = FirstYear
    /\ call = NoCall
    /\ library = NoLibrary
    /\ workers = NoWorkers
    /\ \E found \in SUBSET {"Viewers", "Editors", "Admins"},
          there \in SUBSET {1, 2, 3}, gs \in [{1, 2, 3} -> EarlierGroups] :
          /\ \A i \in there : gs[i] \subseteq found
          /\ \A i \in {1, 2, 3} \ there : gs[i] = {}
          /\ shelf =
                [NoShelf EXCEPT
                    !.groups = [g \in {"Viewers", "Editors", "Admins"} |->
                                   IF g \in found THEN Group(TRUE, GroupPermissions(g))
                                   ELSE Group(FALSE, {})],
                    !.users = {[id |-> i, username |-> TestUsers[i].username,
                                groups |-> gs[i]] : i \in there},
                    !.nextUserId = 4]

NextUsers ==
    \/ RunCreateTestUsers
    \/ GetOrCreateUser
    \/ ClearUserGroups
    \/ AddUserGroups

SpecUsers == InitUsers /\ [][NextUsers]_vars

(***************************************************************************)
(* The HTML Book views of the two projects side by side.  They are         *)
(* separate deployments, each on its own database: a behaviour sends its   *)
(* requests to one of them and leaves the other as it started.             *)
(***************************************************************************)
\* relationship_app has not been used.
ShelfSide == library.user = "" /\ library.last.view = "none"
\* bookshelf has not been used.
LibrarySide == shelf.user = AnonymousUser /\ shelf.last = NoShelfResponse

\* One Book on each site; alice of relationship_app holds any of its
\* permissions.
InitHtml ==
    /\ authors = {}
    /\ books = {}
    /\ nextAuthorId = 1
    /\ nextBookId = 1
    /\ now = 0
    /\ current_year = FirstYear
    /\ call = NoCall
    /\ workers = NoWorkers
    /\ shelf = [NoShelf EXCEPT
                   !.groups = InstalledGroups, !.runs = 1, !.pc = "done",
                   !.books = {[id |-> 1, title |-> <<"A", "b">>, author |-> <<"C", "d">>,
                               publication_year |-> FormMinYear, created_by |-> "editor1"]},
                   !.nextId = 2]
    /\ \E perms \in SUBSET LibraryCodenames :
          library = [NoLibrary EXCEPT
                        !.profiles["alice"] = "Member",
                        !.permissions["alice"] = perms,
                        !.books = {[id |-> 1, title |-> <<"A", "b">>]},
                        !.nextId = 2]

HtmlLogin == ShelfSide /\ Login
HtmlDetail ==
    ShelfSide /\ \E method \in Methods, csrf \in BOOLEAN, id \in ShelfIdInputs :
                    book_detail(method, csrf, id)
HtmlEdit == ShelfSide /\ ShelfEdit
HtmlDelete == ShelfSide /\ ShelfDelete
HtmlLibraryLogin == LibrarySide /\ LibraryLogin
HtmlLibraryEdit == LibrarySide /\ LibraryEdit
HtmlLibraryDelete == LibrarySide /\ LibraryDelete

NextHtml ==
    \/ HtmlLogin
    \/ HtmlDetail
    \/ HtmlEdit
    \/ HtmlDelete
    \/ HtmlLibraryLogin
    \/ HtmlLibraryEdit
    \/ HtmlLibraryDelete

SpecHtml == InitHtml /\ [][NextHtml]_vars

(***************************************************************************)
(* Properties                                                              *)
(***************************************************************************)
\* C1: in every reachable state no two stored Books have the same
\* (title, author) pair, whatever creates, updates and deletes led to it.
C1_UniqueTitleAuthor ==
    \A x, y \in books : (x.title = y.title /\ x.author = y.author) => x = y

\* An update that would have given a Book the pair of another one was refused.
C1_Witness ==
    /\ call.op = "updateBook"
    /\ call.status = 400
    /\ call.errors = {"unique"}
    /\ Cardinality(books) = 2

\* What the serializer accepts as a publication year and as an isbn.
YearAccepted(y, cy) == MinYear <= y /\ y <= cy
IsbnAccepted(raw) ==
    \/ raw = None
    \/ Strip(raw) = <<>>
    \/ /\ Len(Strip(raw)) <= IsbnMaxLength
       /\ Len(Remove(Remove(Strip(raw), "-"), " ")) \in {IsbnShort, IsbnLong}

\* C2 (as amended): a createBook whose year and isbn pass field validation
\* and whose (trimmed title, author) pair an existing Book already has is
\* refused with the duplicate error alone, and no row is added or changed.
C2_DuplicateRefused ==
    [][(/\ Idle
        /\ call'.op = "createBook"
        /\ call'.auth
        /\ YearAccepted(call'.data.publication_year, current_year)
        /\ IsbnAccepted(call'.data.isbn)
        /\ \E b \in books :
              b.title = Strip(call'.data.title) /\ b.author = call'.data.author)
       => (/\ call'.status = 400
           /\ call'.errors = {"unique"}
           /\ books' = books
           /\ authors' = authors)]_vars

\* A createBook was refused as a duplicate.
C2_Witness ==
    /\ call.op = "createBook"
    /\ call.status = 400
    /\ call.errors = {"unique"}

\* C2 (as stated): every createBook with a (title, author) pair an existing
\* Book already has is refused with the duplicate error and no other error,
\* and no row is added or changed.
C2_Original ==
    [][(/\ Idle
        /\ call'.op = "createBook"
        /\ call'.auth
        /\ \E b \in books :
              b.title = call'.data.title /\ b.author = call'.data.author)
       => (/\ call'.status = 400
           /\ call'.errors = {"unique"}
           /\ books' = books
           /\ authors' = authors)]_vars

\* C3: a successful deleteAuthor(a) removes exactly author a and the Books of
\* a, leaves every other Author and Book as it was, and every listBooks
\* answer holds only stored Books, all of authors that exist.
C3_CascadeDelete ==
    /\ [][(Idle /\ call'.op = "deleteAuthor" /\ call'.status = 204)
          => (/\ call'.id \in AuthorIds(authors)
              /\ authors' = {a \in authors : a.id # call'.id}
              /\ books' = {b \in books : b.author # call'.id})]_vars
    /\ [](call.op = "listBooks"
          => /\ {call.body[i].id : i \in 1..Len(call.body)} = BookIds(books)
             /\ \A i \in 1..Len(call.body) : call.body[i].author \in AuthorIds(authors))

\* The only author and the two Books created for it are gone after deleteAuthor.
C3_Witness ==
    /\ call.op = "deleteAuthor"
    /\ call.status = 204
    /\ nextAuthorId = 2
    /\ nextBookId = 3
    /\ books = {}
    /\ authors = {}

\* C4: every stored Book references exactly one stored Author, and a
\* createBook or an updateBook of a stored Book that names an author id with
\* no Author is refused with an author-not-found error and writes nothing.
C4_BookHasAuthor ==
    /\ [](\A b \in books : Cardinality({a \in authors : a.id = b.author}) = 1)
    /\ [][(/\ Idle
           /\ call'.op \in {"createBook", "updateBook"}
           /\ call'.auth
           /\ call'.op = "updateBook" => call'.id \in BookIds(books)
           /\ "author" \in call'.data.fields
           /\ call'.data.author \notin AuthorIds(authors))
          => (/\ call'.status = 400
              /\ call'.errors \cap {"does_not_exist", "AuthorNotFound"} # {}
              /\ books' = books
              /\ authors' = authors)]_vars

\* An update that names the id of an author deleted earlier was refused.
C4_Witness ==
    /\ call.op = "updateBook"
    /\ "does_not_exist" \in call.errors
    /\ call.data.author < nextAuthorId
    /\ call.data.author \notin AuthorIds(authors)

\* C5: validate_publication_year accepts a year, and returns it unchanged,
\* exactly when 1000 <= year <= currentYear; a later year fails with the
\* future-year error and a year before 1000 with the too-early error.
C5_YearValidation ==
    (call.op = "validate_publication_year" /\ call.status # 0) =>
        LET y == call.data.publication_year IN
        /\ YearAccepted(y, current_year) <=> call.status = 200
        /\ call.status = 200 => call.body = <<y>>
        /\ y > current_year => call.status = 400 /\ call.errors = {"FutureYear"}
        /\ y < MinYear => call.status = 400 /\ call.errors = {"YearTooEarly"}

\* The year after the current one has been refused as a future year.
C5_Witness ==
    /\ call.op = "validate_publication_year"
    /\ call.data.publication_year = current_year + 1
    /\ call.errors = {"FutureYear"}

\* C7 (as stated): an absent isbn (None, or the blank a client sends for
\* "no isbn") passes through as absent; any other raw isbn is accepted, and
\* stored without its hyphens and spaces, when that stripped value has 10 or
\* 13 characters, however many hyphens and spaces the raw input has, and is
\* refused with an isbn-length error otherwise.
C7_Original ==
    (call.op = "validate_isbn" /\ call.status # 0) =>
        LET raw == call.data.isbn
            stripped == Remove(Remove(raw, "-"), " ")
        IN IF raw = None \/ Strip(raw) = <<>>
           THEN call.status = 200 /\ call.body \in {<<None>>, <<<<>>>>}
           ELSE IF Len(stripped) \in {IsbnShort, IsbnLong}
           THEN call.status = 200 /\ call.body = <<stripped>>
           ELSE /\ call.status = 400
                /\ call.errors # {}
                /\ call.errors \subseteq {"InvalidIsbnLength", "max_length"}

FirstChar(s) == s[1]
LastChar(s) == s[Len(s)]
Trimmed(s) == s # <<>> /\ ~IsSpace(FirstChar(s)) /\ ~IsSpace(LastChar(s))
IsCased(c) == IsLower(c) \/ IsUpper(c)
\* Every letter that starts a word is upper case and every other letter lower case.
TitleCased(s) ==
    \A i \in 1..Len(s) :
        LET prevCased == i > 1 /\ IsCased(s[i - 1]) IN
        /\ IsUpper(s[i]) => ~prevCased
        /\ IsLower(s[i]) => prevCased

\* A body with a field that field validation refuses.
InvalidBookInput(d, cy) ==
    \/ "title" \in d.fields /\ Strip(d.title) = <<>>
    \/ "publication_year" \in d.fields /\ ~YearAccepted(d.publication_year, cy)
    \/ "isbn" \in d.fields /\ ~IsbnAccepted(d.isbn)

\* C6: every Book row a call writes has a non-empty title without leading or
\* trailing whitespace and a publication_year in [1000, currentYear] for the
\* currentYear of that call, and a createBook or updateBook whose input fails
\* validation neither stores nor changes a Book.
C6_ValidatedBooks ==
    [][/\ \A b \in books' \ books :
              Trimmed(b.title) /\ YearAccepted(b.publication_year, current_year)
       /\ (/\ Idle
           /\ call'.op \in {"createBook", "updateBook"}
           /\ InvalidBookInput(call'.data, current_year))
          => books' = books]_vars

\* An update with a future year was refused while a Book is stored.
C6_Witness ==
    /\ call.op = "updateBook"
    /\ call.status = 400
    /\ "FutureYear" \in call.errors
    /\ call.id \in BookIds(books)

TestAuthorRaw ==
    <<" ", " ", "t", "e", "s", "t", " ", "a", "u", "t", "h", "o", "r", " ", " ">>
TestAuthorName == <<"T", "e", "s", "t", " ", "A", "u", "t", "h", "o", "r">>

UpdateFrame(op, rows, rows2, others, others2, writable, keepStamp) ==
    (Idle /\ call'.op = op /\ call'.auth) =>
        IF call'.id \notin {r.id : r \in rows}
        THEN call'.status = 404 /\ rows2 = rows /\ others2 = others
        ELSE LET old == CHOOSE r \in rows : r.id = call'.id
                 new == CHOOSE r \in rows2 : r.id = call'.id
             IN /\ others2 = others
                /\ call'.id \in {r.id : r \in rows2}
                /\ rows2 \ {new} = rows \ {old}
                /\ \A f \in (writable \ call'.data.fields) \cup {"id", "created_at"}
                            \cup (IF keepStamp THEN {"updated_at"} ELSE {}) :
                       new[f] = old[f]
                /\ call'.status # 200 => rows2 = rows

\* C9 (as amended): updateBook and updateAuthor change only the supplied
\* fields and the system-managed updated_at of the target row.
C9_PartialUpdate ==
    [][/\ UpdateFrame("updateBook", books, books', authors, authors', BookWritable, FALSE)
       /\ UpdateFrame("updateAuthor", authors, authors', books, books', {"name"}, FALSE)]_vars

\* A PATCH of the title alone went through on a Book that keeps its isbn.
C9_Witness ==
    /\ call.op = "updateBook"
    /\ call.status = 200
    /\ call.data.fields = {"title"}
    /\ \E b \in books :
          /\ b.id = call.id
          /\ b.isbn # None
          /\ b.title = Strip(call.data.title)
          /\ b.updated_at > b.created_at

\* C9 (as stated): every field of the target row that is not supplied,
\* updated_at included, keeps the value it had before the call.
C9_Original ==
    [][/\ UpdateFrame("updateBook", books, books', authors, authors', BookWritable, TRUE)
       /\ UpdateFrame("updateAuthor", authors, authors', books, books', {"name"}, TRUE)]_vars

\* C10: a successful createBook stores a Book with the posted title (trimmed),
\* year and author under a new id; a stored Book leaves the store only through
\* deleteBook or deleteAuthor; and every listBooks answer holds each stored
\* Book exactly once, with its stored values.
C10_CreatedThenListed ==
    /\ [][/\ (Idle /\ call'.op = "createBook" /\ call'.status = 201)
             => /\ call'.id \notin BookIds(books)
                /\ \E b \in books' :
                      /\ b.id = call'.id
                      /\ b.title = Strip(call'.data.title)
                      /\ b.publication_year = call'.data.publication_year
                      /\ b.author = call'.data.author
          /\ BookIds(books) \ BookIds(books') # {}
             => call'.op \in {"deleteBook", "deleteAuthor"}]_vars
    /\ [](call.op = "listBooks" =>
            \A b \in books :
                /\ Cardinality({i \in 1..Len(call.body) : call.body[i].id = b.id}) = 1
                /\ \A i \in 1..Len(call.body) :
                      call.body[i].id = b.id => call.body[i] = BookListItem(b, authors))

\* Two Books were created and a listBooks answer holds both.
C10_Witness ==
    /\ call.op = "listBooks"
    /\ Len(call.body) = 2
    /\ Cardinality(books) = 2

\* The ids a list response holds, and whether it holds each row once.
BodyIds(body) == {body[i].id : i \in 1..Len(body)}
NoRepeat(body) == \A i, j \in 1..Len(body) : body[i].id = body[j].id => i = j

\* t is a substring of s when case is ignored; a missing value holds nothing.
SubstringCI(t, s) ==
    /\ s # None
    /\ \E k \in 1..(Len(s) + 1) :
          /\ k + Len(t) - 1 <= Len(s)
          /\ \A i \in 1..Len(t) : ToLower(s[k + i - 1]) = ToLower(t[i])

\* s is found in one of the three searched fields of b.
FoundIn(b, s) ==
    \/ SubstringCI(s, b.title)
    \/ \E a \in authors : a.id = b.author /\ SubstringCI(s, a.name)
    \/ SubstringCI(s, b.isbn)

\* The words of s: the longest runs without a space or a comma.
WordBreak(c) == c \in {" ", "\t", "\n", ","}
Words(s) ==
    {SubSeq(s, p[1], p[2]) :
        p \in {p \in (1..Len(s)) \X (1..Len(s)) :
                 /\ p[1] <= p[2]
                 /\ \A k \in p[1]..p[2] : ~WordBreak(s[k])
                 /\ (p[1] = 1 \/ WordBreak(s[p[1] - 1]))
                 /\ (p[2] = Len(s) \/ WordBreak(s[p[2] + 1]))}}

SearchAnswered == call.op = "searchBooks" /\ call.status = 200

\* C11 (as amended): listBooks(search=s) returns, each once, exactly the
\* stored Books for which every word of s (s split at spaces and commas) is a
\* case-insensitive substring of the title, of the author's name or of the
\* isbn; with no search, or a search of no word, it returns all Books.
C11_SearchBooks ==
    SearchAnswered =>
        /\ NoRepeat(call.body)
        /\ BodyIds(call.body) =
              {b.id : b \in {b \in books :
                                \A w \in Words(call.data.search) : FoundIn(b, w)}}

\* A search that only the isbn of one of several Books answers.
C11_Witness ==
    /\ SearchAnswered
    /\ call.data.search = <<"2", "3", "4">>
    /\ Len(call.body) = 1
    /\ Cardinality(books) >= 3

\* C11 as stated: the Books returned are exactly those that hold the whole
\* of s, case ignored, in the title, the author's name or the isbn.
C11_Original ==
    SearchAnswered =>
        BodyIds(call.body) =
            {b.id : b \in {b \in books :
                              call.data.search = <<>> \/ FoundIn(b, call.data.search)}}

\* The rows of a list response never go down (up, when desc) in column f.
SortedOn(body, f, desc) ==
    \A i, j \in 1..Len(body) :
        i < j => IF desc THEN ~KeyLess(f, body[i][f], body[j][f])
                 ELSE ~KeyLess(f, body[j][f], body[i][f])

\* C12: with no ordering parameter the Books come by publication year
\* descending and, within a year, by title ascending; with one of title,
\* publication_year, created_at, updated_at, in either direction, they come
\* sorted on that column in that direction; whatever the ordering, the Books
\* returned are the ones the search alone selects, each once.
C12_Ordering ==
    SearchAnswered =>
        LET o == call.data.ordering
            body == call.body
        IN /\ NoRepeat(body)
           /\ BodyIds(body) =
                 {b.id : b \in {b \in books :
                                   \A w \in Words(call.data.search) : FoundIn(b, w)}}
           /\ o = <<>> =>
                 \A i, j \in 1..Len(body) :
                     i < j =>
                        \/ body[i].publication_year > body[j].publication_year
                        \/ /\ body[i].publication_year = body[j].publication_year
                           /\ ~StrLess(body[j].title, body[i].title)
           /\ (Len(o) = 1 /\ o[1].field \in {"title", "publication_year",
                                              "created_at", "updated_at"}) =>
                 SortedOn(body, o[1].field, o[1].desc)

\* All five Books listed by updated_at descending: the Book updated last
\* comes first, though three Books are of a later or equal year.
C12_Witness ==
    /\ SearchAnswered
    /\ call.data.ordering = <<OrderTerm("updated_at", TRUE)>>
    /\ Len(call.body) = 5
    /\ call.body[1].id = 1
    /\ call.body[5].id = 2

AuthorBooksAnswered == call.op = "authorBooks" /\ call.status # 0

\* The ordering parameter is absent or names one column of Book.
NamesBookColumn(o) ==
    \/ ~o.given
    \/ /\ Len(o.terms) = 1
       /\ o.terms[1].field \in {"id", "title", "publication_year", "author",
                                "created_at", "updated_at"}

\* C13 (as amended): listBooksByAuthor returns, each once, exactly the Books
\* of the author whose title or isbn holds the search string as a
\* case-insensitive substring (all of the author's Books when no search is
\* given), sorted on the column orderBy names (on publication year
\* descending when none is given), with books_count the number of Books
\* returned; for an id that references no Author it returns the
\* author-not-found error.
C13_AuthorBooks ==
    AuthorBooksAnswered =>
        IF call.id \notin AuthorIds(authors)
        THEN call.status = 404 /\ call.errors = {"AuthorNotFound"}
        ELSE NamesBookColumn(call.data.ordering) =>
                LET s == call.data.search
                    o == call.data.ordering
                    listed == call.body.books
                IN /\ call.status = 200
                   /\ NoRepeat(listed)
                   /\ BodyIds(listed) =
                         {b.id : b \in {b \in books :
                                           /\ b.author = call.id
                                           /\ \/ s = <<>>
                                              \/ SubstringCI(s, b.title)
                                              \/ SubstringCI(s, b.isbn)}}
                   /\ call.body.books_count = Len(listed)
                   /\ IF o.given
                      THEN SortedOn(listed, o.terms[1].field, o.terms[1].desc)
                      ELSE SortedOn(listed, "publication_year", TRUE)

\* A search by digits of the isbn picks one of the two Books of author 1.
C13_Witness ==
    /\ AuthorBooksAnswered
    /\ call.id = 1
    /\ call.data.search = <<"2", "3", "4">>
    /\ Cardinality({b \in books : b.author = 1}) = 2
    /\ call.status = 200
    /\ call.body.books_count = 1
    /\ BodyIds(call.body.books) = {1}

\* C13 as stated, the search matching as listBooks matches it (title,
\* author's name or isbn), for an ordering that is absent or names a column.
C13_Original ==
    (AuthorBooksAnswered /\ NamesBookColumn(call.data.ordering)) =>
        IF call.id \notin AuthorIds(authors)
        THEN call.status = 404 /\ call.errors = {"AuthorNotFound"}
        ELSE /\ call.status = 200
             /\ BodyIds(call.body.books) =
                   {b.id : b \in {b \in books :
                                     /\ b.author = call.id
                                     /\ \/ call.data.search = <<>>
                                        \/ FoundIn(b, call.data.search)}}
             /\ call.body.books_count = Len(call.body.books)

\* C14: listAuthors returns every stored Author exactly once, by name
\* ascending, each with a book count equal to the number of stored Books
\* whose author it is.
C14_ListAuthors ==
    (call.op = "listAuthors" /\ call.status # 0) =>
        /\ call.status = 200
        /\ NoRepeat(call.body)
        /\ BodyIds(call.body) = {a.id : a \in authors}
        /\ \A i, j \in 1..Len(call.body) :
              i < j => ~StrLess(call.body[j].name, call.body[i].name)
        /\ \A i \in 1..Len(call.body) :
              /\ call.body[i].books_count =
                    Cardinality({b \in books : b.author = call.body[i].id})
              /\ \E a \in authors : a.id = call.body[i].id /\ a.name = call.body[i].name

\* Three Authors listed, two of one name first, with two, one and no Books.
C14_Witness ==
    /\ call.op = "listAuthors"
    /\ call.status = 200
    /\ Len(call.body) = 3
    /\ call.body[3].id = 2
    /\ {call.body[i].books_count : i \in 1..3} = {0, 1, 2}

StatisticsAnswered == call.op = "statistics" /\ call.status # 0

\* The sum of the counts of a books_per_year list.
RECURSIVE SumOfCounts(_)
SumOfCounts(rows) ==
    IF rows = <<>> THEN 0 ELSE Head(rows).count + SumOfCounts(Tail(rows))

\* C15: computeStatistics returns the number of Books, the number of
\* Authors, the least and the greatest publication year, and one
\* books_per_year entry for each distinct year, by ascending year, each with
\* the number of Books of that year, the counts adding up to the number of
\* Books; on an empty store it returns 0, 0, None, None, [] and [].
C15_Statistics ==
    StatisticsAnswered =>
        LET r == call.body
            years == {b.publication_year : b \in books}
            per_year == r.books_per_year
        IN /\ call.status = 200
           /\ r.total_books = Cardinality(books)
           /\ r.total_authors = Cardinality(authors)
           /\ books # {} =>
                 /\ r.year_range.earliest \in years
                 /\ r.year_range.latest \in years
                 /\ \A y \in years : r.year_range.earliest <= y /\ y <= r.year_range.latest
           /\ books = {} => r.year_range.earliest = None /\ r.year_range.latest = None
           /\ Len(per_year) = Cardinality(years)
           /\ {per_year[i].publication_year : i \in 1..Len(per_year)} = years
           /\ \A i, j \in 1..Len(per_year) :
                 i < j => per_year[i].publication_year < per_year[j].publication_year
           /\ \A i \in 1..Len(per_year) :
                 per_year[i].count =
                    Cardinality({b \in books :
                                    b.publication_year = per_year[i].publication_year})
           /\ SumOfCounts(per_year) = r.total_books
           /\ (books = {} /\ authors = {}) => r.top_authors = <<>>

\* Statistics of six Authors and seven Books of three different years.
C15_Witness ==
    /\ StatisticsAnswered
    /\ call.body.total_authors = 6
    /\ call.body.total_books = 7
    /\ Len(call.body.books_per_year) = 3
    /\ call.body.year_range.earliest < call.body.year_range.latest

\* The number of stored Books of the Author with this id.
BooksOf(id) == Cardinality({b \in books : b.author = id})

\* top is the list of the n Authors of most Books: n entries, each a stored
\* Author once with its book count, by descending count, and no Author left
\* out has more Books than one listed.
TopOf(top, n) ==
    /\ Len(top) = n
    /\ NoRepeat(top)
    /\ BodyIds(top) \subseteq {a.id : a \in authors}
    /\ \A i \in 1..Len(top) : top[i].books_count = BooksOf(top[i].id)
    /\ \A i, j \in 1..Len(top) : i < j => top[i].books_count >= top[j].books_count
    /\ \A a \in authors :
          a.id \notin BodyIds(top) =>
             \A i \in 1..Len(top) : BooksOf(a.id) <= top[i].books_count

\* The lesser of 5 and the number of Authors.
TopSize == IF Cardinality(authors) < 5 THEN Cardinality(authors) ELSE 5

\* C16 (as amended): when the store holds at least one Book, top_authors
\* holds the min(5, number of Authors) Authors of most Books, by descending
\* book count; when it holds no Book, top_authors is empty, however many
\* Authors there are.
C16_TopAuthors ==
    StatisticsAnswered =>
        IF books # {} THEN TopOf(call.body.top_authors, TopSize)
        ELSE call.body.top_authors = <<>>

\* Six Authors, five listed: the one left out has no Book, the last listed
\* has one and the first two.
C16_Witness ==
    /\ StatisticsAnswered
    /\ Cardinality(authors) = 6
    /\ Len(call.body.top_authors) = 5
    /\ call.body.top_authors[1].books_count = 2
    /\ call.body.top_authors[5].books_count = 1
    /\ \E a \in authors : a.id \notin BodyIds(call.body.top_authors) /\ BooksOf(a.id) = 0

\* C16 as stated: in every store state top_authors holds min(5, number of
\* Authors) Authors.
C16_Original == StatisticsAnswered => TopOf(call.body.top_authors, TopSize)

\* C17 as stated: Authors of equal book count are listed in id order, and an
\* Author left out of the list for one of equal count has the greater id.
C17_Original ==
    StatisticsAnswered =>
        LET top == call.body.top_authors IN
        /\ \A i, j \in 1..Len(top) :
              (i < j /\ top[i].books_count = top[j].books_count) => top[i].id < top[j].id
        /\ \A a \in authors :
              a.id \notin BodyIds(top) =>
                 \A i \in 1..Len(top) :
                    top[i].books_count = BooksOf(a.id) => top[i].id < a.id

\* The permissions of a group.
PermissionsOf(g) == shelf.groups[g].permissions

\* C18: once setup_groups has completed, whatever the groups held before,
\* Viewers holds exactly can_view, Editors exactly can_view, can_create and
\* can_edit, and Admins all four; Viewers is within Editors and Editors
\* within Admins; a later run of the command ends with the same permissions
\* (the statement holds at the end of every run).
C18_GroupBootstrap ==
    shelf.pc = "done" =>
        /\ \A i \in 1..Len(GroupNames) : shelf.groups[GroupNames[i]].exists
        /\ PermissionsOf("Viewers") = {"can_view"}
        /\ PermissionsOf("Editors") = {"can_view", "can_create", "can_edit"}
        /\ PermissionsOf("Admins") = {"can_view", "can_create", "can_edit", "can_delete"}
        /\ PermissionsOf("Viewers") \subseteq PermissionsOf("Editors")
        /\ PermissionsOf("Editors") \subseteq PermissionsOf("Admins")

\* The end of a second run, in which every group already existed.
C18_Witness ==
    /\ shelf.pc = "done"
    /\ shelf.runs = 2
    /\ shelf.created = {}

\* The Book of the shelf with this id, as a set of none or one.
ShelfBook(sh, id) == {b \in sh.books : b.id = id}

\* The permissions the user of the session holds.
Holds(perm) == has_perm(shelf.user, perm, shelf.groups)

\* The user of the session holds the permissions of the Viewers group alone.
ViewerOnly == {p \in Codenames : Holds(p)} = GroupPermissions("Viewers")

\* What one step does to the Books of the shelf.
ShelfCreates == \E id \in 1..MaxShelfBooks : ShelfBook(shelf, id) = {} /\ ShelfBook(shelf', id) # {}
ShelfChanges ==
    \E id \in 1..MaxShelfBooks :
        /\ ShelfBook(shelf, id) # {}
        /\ ShelfBook(shelf', id) # {}
        /\ ShelfBook(shelf', id) # ShelfBook(shelf, id)
ShelfDeletes == \E id \in 1..MaxShelfBooks : ShelfBook(shelf, id) # {} /\ ShelfBook(shelf', id) = {}

\* What one step does to the Books of the catalogue.
ApiCreates == \E b \in books' : b.id \notin BookIds(books)
ApiChanges == \E b \in books : \E c \in books' : c.id = b.id /\ c # b
ApiDeletes == \E b \in books : b.id \notin BookIds(books')

\* C19 (as amended): through the bookshelf views a Book is created only by a
\* caller who holds can_create, changed only by one who holds can_edit and
\* deleted only by one who holds can_delete; a caller whose permissions are
\* those of the Viewers group alone never causes a Book of the shelf to be
\* created, changed or deleted.  (That a member of Admins can delete is the
\* witness.)
C19_ShelfPermissions ==
    [][ /\ ShelfCreates => Holds("can_create")
        /\ ShelfChanges => Holds("can_edit")
        /\ ShelfDeletes => Holds("can_delete")
        /\ ViewerOnly => shelf'.books = shelf.books ]_vars

\* A member of Admins has deleted a Book through book_delete.
C19_Witness ==
    /\ shelf.user.name = "admin1"
    /\ shelf.user.groups = {"Admins"}
    /\ shelf.last.view = "book_delete"
    /\ shelf.last.status = 302
    /\ shelf.nextId > shelf.last.book_id
    /\ ShelfBook(shelf, shelf.last.book_id) = {}

\* C19 as stated, over every Book the callers reach, those of the catalogue
\* included.
C19_Original ==
    [][ /\ (ShelfCreates \/ ApiCreates) => Holds("can_create")
        /\ (ShelfChanges \/ ApiChanges) => Holds("can_edit")
        /\ (ShelfDeletes \/ ApiDeletes) => Holds("can_delete")
        /\ ViewerOnly => (shelf'.books = shelf.books /\ books' = books) ]_vars

\* The requests that write and the requests that read.
WriteOps ==
    {"createAuthor", "updateAuthor", "deleteAuthor", "createBook", "updateBook", "deleteBook"}
ReadOps ==
    {"listAuthors", "retrieveAuthor", "searchBooks", "listBooks", "retrieveBook",
     "authorBooks", "statistics"}

\* The request just received reads something that is there: the Author or
\* Book it names is stored, and the ordering of an author_books request is
\* absent or names a column of Book.
ReadsStored ==
    /\ call'.op \in {"retrieveAuthor", "authorBooks"} => call'.id \in AuthorIds(authors)
    /\ call'.op = "retrieveBook" => call'.id \in BookIds(books)
    /\ call'.op = "authorBooks" => NamesBookColumn(call'.data.ordering)

\* C20: no request of an unauthenticated caller changes the stored Authors or
\* Books; every create, update and delete it attempts is answered 403 and
\* leaves the store unchanged; its read requests (list, retrieve,
\* books-by-author, statistics) are never refused for want of
\* authentication, and are answered 200 whenever what they read is there.
C20_Unauthenticated ==
    [][ (call.op = "none" /\ call'.op # "none" /\ ~call'.auth) =>
            /\ authors' = authors
            /\ books' = books
            /\ nextAuthorId' = nextAuthorId
            /\ nextBookId' = nextBookId
            /\ call'.op \in WriteOps => call'.status = 403
            /\ call'.op \in ReadOps => call'.status \notin {401, 403}
            /\ (call'.op \in ReadOps /\ ReadsStored) => call'.status = 200 ]_vars

\* An unauthenticated caller has been refused the deletion of a stored Book
\* that is still there.
C20_Witness ==
    /\ call.op = "deleteBook"
    /\ ~call.auth
    /\ call.status = 403
    /\ call.id \in BookIds(books)

\* The users of relationship_app, as request.user sees each of them.
LibraryUsers ==
    {[name |-> n, authenticated |-> TRUE, profile |-> library.profiles[n],
      permissions |-> library.permissions[n]] :
        n \in {m \in LibraryNames : library.profiles[m] # "NoUser"}}

\* The role checks a user passes.
ChecksPassed(user) ==
    {c \in {"is_admin", "is_librarian", "is_member"} :
        \/ c = "is_admin" /\ is_admin(user)
        \/ c = "is_librarian" /\ is_librarian(user)
        \/ c = "is_member" /\ is_member(user)}

\* C22 as stated: in every reachable state every user has exactly one role,
\* one of Admin, Librarian and Member, a user just created with its profile
\* made automatically included; so exactly one of is_admin, is_librarian and
\* is_member is true of every user.
C22_Original ==
    \A user \in LibraryUsers :
        /\ user.profile \in Roles
        /\ Cardinality(ChecksPassed(user)) = 1

\* Every kind of caller the checks can be handed: a user of each role, a user
\* whose profile names no role, a user without a profile, and AnonymousUser.
CallerKinds ==
    {[name |-> "x", authenticated |-> TRUE, profile |-> r, permissions |-> {}] :
        r \in Roles \cup {"", "NoProfile"}}
    \cup {[name |-> "", authenticated |-> FALSE, profile |-> "NoProfile", permissions |-> {}]}

\* The last request was for a role view and was served.
Served(view) == library.last.view = view /\ library.last.status = 200

\* C23: admin_view is served only to a user of role Admin, librarian_view only
\* to a Librarian, member_view only to a Member; no caller passes more than
\* one of the three checks, a user without a profile and an unauthenticated
\* caller pass none, and a check answers for every caller (a role view is
\* served or redirects to the login page, nothing else).
C23_RoleViews ==
    /\ Served("admin_view") => LibraryUser(library).profile = "Admin"
    /\ Served("librarian_view") => LibraryUser(library).profile = "Librarian"
    /\ Served("member_view") => LibraryUser(library).profile = "Member"
    /\ \A user \in CallerKinds \cup LibraryUsers \cup {LibraryUser(library)} :
          /\ Cardinality(ChecksPassed(user)) <= 1
          /\ (user.profile = "NoProfile" \/ ~user.authenticated) => ChecksPassed(user) = {}
    /\ library.last.view \in {"admin_view", "librarian_view", "member_view"} =>
          library.last.status \in {200, 302}

\* A Librarian has been served librarian_view, and passes that check alone.
C23_Witness ==
    /\ Served("librarian_view")
    /\ LibraryUser(library).profile = "Librarian"
    /\ ChecksPassed(LibraryUser(library)) = {"is_librarian"}

\* The statuses a view answers with.
Statuses == {200, 302, 403, 404, 405}

\* The caller of relationship_app holds the permission.
LibraryHolds(perm) == perm \in LibraryUser(library).permissions

\* The outcomes of one request: the view can answer with the status, the
\* Books of the site being left as they are.
EditAnswers(method, csrf, id, data, status) ==
    ENABLED (/\ book_edit(method, csrf, id, data)
             /\ shelf'.last.status = status
             /\ shelf'.books = shelf.books)
DeleteAnswers(method, csrf, id, status) ==
    ENABLED (/\ book_delete(method, csrf, id)
             /\ shelf'.last.status = status
             /\ shelf'.books = shelf.books)
DetailAnswers(method, csrf, id, status) ==
    ENABLED (/\ book_detail(method, csrf, id)
             /\ shelf'.last.status = status
             /\ shelf'.books = shelf.books)
LibraryEditAnswers(method, id, title, status) ==
    ENABLED (/\ edit_book(method, id, title)
             /\ library'.last.status = status
             /\ library'.books = library.books)
LibraryDeleteAnswers(method, id, status) ==
    ENABLED (/\ delete_book(method, id)
             /\ library'.last.status = status
             /\ library'.books = library.books)

\* C21: a caller who lacks the permission of a Book view (detail, edit,
\* delete) is denied in the same way whether or not the Book exists: the
\* same request for any two ids, stored or not, has the same outcomes, each
\* a denial (403, or 302 to the login page) that changes nothing and is not
\* the 404 a caller holding the permission gets for a missing id.
C21_NoExistenceLeak ==
    \A method \in Methods, csrf \in BOOLEAN, status \in Statuses :
        /\ \A id1 \in ShelfIdInputs, id2 \in ShelfIdInputs :
              /\ ~Holds("can_edit") =>
                    \A data \in FormInputs :
                        /\ EditAnswers(method, csrf, id1, data, status)
                              <=> EditAnswers(method, csrf, id2, data, status)
                        /\ EditAnswers(method, csrf, id1, data, status) <=>
                              status = IF shelf.user.authenticated \/ (method = "POST" /\ ~csrf)
                                       THEN 403 ELSE 302
              /\ ~Holds("can_delete") =>
                    /\ DeleteAnswers(method, csrf, id1, status)
                          <=> DeleteAnswers(method, csrf, id2, status)
                    /\ DeleteAnswers(method, csrf, id1, status) <=>
                          status = IF shelf.user.authenticated \/ (method = "POST" /\ ~csrf)
                                   THEN 403 ELSE 302
              /\ ~Holds("can_view") =>
                    /\ DetailAnswers(method, csrf, id1, status)
                          <=> DetailAnswers(method, csrf, id2, status)
                    /\ DetailAnswers(method, csrf, id1, status) <=>
                          status = IF method = "POST" /\ ~csrf THEN 403 ELSE 302
        /\ \A id1 \in LibraryIdInputs, id2 \in LibraryIdInputs :
              /\ ~LibraryHolds("can_change_book") =>
                    \A title \in LibraryTitles :
                        /\ LibraryEditAnswers(method, id1, title, status)
                              <=> LibraryEditAnswers(method, id2, title, status)
                        /\ LibraryEditAnswers(method, id1, title, status) <=>
                              status = IF LibraryUser(library).authenticated THEN 403 ELSE 302
              /\ ~LibraryHolds("can_delete_book") =>
                    /\ LibraryDeleteAnswers(method, id1, status)
                          <=> LibraryDeleteAnswers(method, id2, status)
                    /\ LibraryDeleteAnswers(method, id1, status) <=>
                          status = IF LibraryUser(library).authenticated THEN 403 ELSE 302
        /\ \A id \in ShelfIdInputs :
              (ShelfBook(shelf, id) = {} /\ csrf) =>
                  /\ Holds("can_edit") =>
                        \A data \in FormInputs :
                            EditAnswers(method, csrf, id, data, status) <=> status = 404
                  /\ Holds("can_view") =>
                        (DetailAnswers(method, csrf, id, status) <=> status = 404)
                  /\ (Holds("can_delete") /\ method = "POST") =>
                        (DeleteAnswers(method, csrf, id, status) <=> status = 404)
        /\ \A id \in LibraryIdInputs :
              ({b \in library.books : b.id = id} = {}) =>
                  /\ LibraryHolds("can_change_book") =>
                        \A title \in LibraryTitles :
                            LibraryEditAnswers(method, id, title, status) <=> status = 404
                  /\ LibraryHolds("can_delete_book") =>
                        (LibraryDeleteAnswers(method, id, status) <=> status = 404)

\* A caller holding the Viewers permissions alone has been denied the
\* deletion of a stored Book with 403, and would be denied that of a missing
\* one in the same way.
C21_Witness ==
    /\ shelf.user.name = "viewer1"
    /\ shelf.last.view = "book_delete"
    /\ shelf.last.status = 403
    /\ ShelfBook(shelf, shelf.last.book_id) # {}
    /\ ShelfBook(shelf, shelf.nextId) = {}
    /\ DeleteAnswers("POST", TRUE, shelf.nextId, 403)

\* One step removes a Book of relationship_app.
LibraryDeletes == \E b \in library.books : \A c \in library'.books : c.id # b.id

\* C29: in the HTML Book views a Book is deleted only by a POST request to the
\* delete view from a caller who holds the delete permission; a request to a
\* delete view by any other method removes no Book, for any caller and id.
C29_DeleteByPost ==
    [][ /\ ShelfDeletes =>
              /\ shelf'.last.view = "book_delete"
              /\ shelf'.last.method = "POST"
              /\ Holds("can_delete")
        /\ LibraryDeletes =>
              /\ library'.last.view = "delete_book"
              /\ library'.last.method = "POST"
              /\ LibraryHolds("can_delete_book")
        /\ (shelf' # shelf /\ shelf'.last.view = "book_delete" /\ shelf'.last.method # "POST")
              => shelf'.books = shelf.books
        /\ (library' # library /\ library'.last.view = "delete_book"
               /\ library'.last.method # "POST")
              => library'.books = library.books ]_vars

\* A caller holding can_delete_book has been shown the confirmation page of
\* delete_book on a GET, and the Book is still there.
C29_Witness ==
    /\ library.last.view = "delete_book"
    /\ library.last.method = "GET"
    /\ library.last.status = 200
    /\ LibraryHolds("can_delete_book")
    /\ \E b \in library.books : b.id = library.last.book_id

\* The years around the limits of BookForm, with 0 and a negative year.
FormYears == {-1, 0, 1, FormMinYear - 1, FormMinYear, FormMaxYear, FormMaxYear + 1}

\* C24 as stated: BookForm accepts a publication year only if it lies between
\* 1000 and 2025: clean_publication_year raises its error for every year
\* outside the range, 0 and negative years included, and returns every year
\* inside it unchanged; so no Book saved through the form holds a year
\* outside the range.
C24_Original ==
    /\ \A year \in FormYears :
          BookForm_clean_publication_year(year) =
              IF year \in FormMinYear..FormMaxYear THEN Ok(year)
              ELSE Fail("YearOutOfRange", year)
    /\ \A b \in shelf.books : b.publication_year \in FormMinYear..FormMaxYear

\* The user rows of a username.
RowsOf(sh, username) == {u \in sh.users : u.username = username}

\* What holds of the users in every state of create_test_users.
UsersAsLeft(sh) ==
    /\ \A i \in 1..Len(TestUsers) : Cardinality(RowsOf(sh, TestUsers[i].username)) <= 1
    /\ sh.job.pc = "failed" =>
          /\ \E g \in {"Viewers", "Editors", "Admins"} : ~sh.groups[g].exists
          /\ sh.job.output = "Groups not found"
          /\ sh.users = sh.job.before
    /\ sh.job.pc = "done" =>
          /\ \A g \in {"Viewers", "Editors", "Admins"} : sh.groups[g].exists
          /\ \A i \in 1..Len(TestUsers) :
                \E u \in sh.users :
                    /\ RowsOf(sh, TestUsers[i].username) = {u}
                    /\ u.groups = {TestUsers[i].group}
    /\ (sh.job.pc = "done" /\ sh.job.runs > 1) => sh.users = sh.job.before

\* C25: if any of Viewers, Editors, Admins does not exist, create_test_users
\* reports 'Groups not found' and creates or changes no user and no
\* membership; when all three exist, after the command viewer1 belongs to
\* exactly {Viewers}, editor1 to exactly {Editors} and admin1 to exactly
\* {Admins}, and running it again creates no duplicate user and gives the
\* same memberships.
C25_CreateTestUsers ==
    [][ /\ UsersAsLeft(shelf')
        /\ (\E g \in {"Viewers", "Editors", "Admins"} : ~shelf.groups[g].exists) =>
              /\ shelf'.users = shelf.users
              /\ shelf'.nextUserId = shelf.nextUserId
              /\ shelf'.job.pc \in {"idle", "failed"}
        /\ (shelf.job.pc = "idle" /\ shelf'.job.pc = "failed")
              => shelf'.job.output = "Groups not found" ]_vars

\* The command has run twice over users who held other memberships: the
\* second run left the rows as the first made them.
C25_Witness ==
    /\ shelf.job.pc = "done"
    /\ shelf.job.runs = 2
    /\ shelf.users = shelf.job.before
    /\ Cardinality(shelf.users) = Len(TestUsers)
    /\ \E u \in shelf.users : u.username = "viewer1" /\ u.groups = {"Viewers"}

\* Two requests ask for the same (title, author): the titles are the same
\* once the blanks around them are trimmed.
SamePair(w1, w2) ==
    /\ Strip(workers[w1].data.title) = Strip(workers[w2].data.title)
    /\ workers[w1].data.author = workers[w2].data.author

\* The request has stored its Book.
Stored(w) == workers[w].pc = "done" /\ workers[w].status = 201

\* The request has ended with the duplicate reported as an error.
LostAsDuplicate(w) ==
    /\ workers[w].pc = "done"
    /\ workers[w].status \in {400, 500}
    /\ workers[w].errors \cap {"unique", "IntegrityError"} # {}

\* C26: when two createBook calls with the same (title, authorId) run
\* concurrently, in every interleaving of their checks and writes at most
\* one stores a record, the store never holds two Books with that pair, and
\* the call that loses ends with the duplicate reported as an error.
C26_ConcurrentCreate ==
    /\ \A b1 \in books, b2 \in books :
          (b1.title = b2.title /\ b1.author = b2.author) => b1 = b2
    /\ \A w1 \in DOMAIN workers, w2 \in DOMAIN workers :
          (w1 # w2 /\ SamePair(w1, w2)) =>
              /\ ~(Stored(w1) /\ Stored(w2))
              /\ (Stored(w1) /\ workers[w2].pc = "done") => LostAsDuplicate(w2)
              /\ Stored(w1) => \E b \in books : b = workers[w1].instance

\* Both requests passed both checks before either wrote: one stored its
\* Book, and the INSERT of the other was refused by the unique index.
C26_Witness ==
    /\ DOMAIN workers = 1..MaxWorkers
    /\ SamePair(1, 2)
    /\ Stored(1)
    /\ workers[2].pc = "done"
    /\ workers[2].status = 500
    /\ workers[2].errors = {"IntegrityError"}

\* C27 as stated: computeStatistics returns values that all describe one
\* store state even when createBook, deleteBook or deleteAuthor calls run
\* between its queries: the counts of booksPerYear sum to totalBooks,
\* earliest and latest are the first and last years of booksPerYear, and
\* they are None only if totalBooks is 0.
C27_Original ==
    (workers # NoWorkers /\ workers[1].pc = "done") =>
        LET r == workers[1]
            per_year == r.books_per_year
        IN /\ SumOfCounts(per_year) = r.total_books
           /\ r.earliest = IF per_year = <<>> THEN {} ELSE {per_year[1].publication_year}
           /\ r.latest = IF per_year = <<>> THEN {}
                         ELSE {per_year[Len(per_year)].publication_year}
           /\ (r.earliest = {} \/ r.latest = {}) => r.total_books = 0

\* C28 as stated: for every (title, publication_year, isbn) the validate_
\* methods of BookSerializer accept the values exactly when Book.full_clean,
\* which Book.save runs, accepts them, and both leave the same title and isbn.
C28_Original ==
    (call.op = "book_layers" /\ call.status # 0) =>
        LET ser == call.body[1]
            mod == call.body[2]
        IN /\ (ser.errors = {}) <=> (mod.errors = {})
           /\ (ser.errors = {} /\ mod.errors = {}) =>
                 (ser.title = mod.title /\ ser.isbn = mod.isbn)

\* C30 as stated: an orderBy that names no allowed ordering field never makes
\* listBooks or listBooksByAuthor fail: listBooks answers with the Books it
\* returns without orderBy, in the default order, and listBooksByAuthor
\* returns no error but author-not-found.
C30_Original ==
    /\ (call.op = "searchBooks" /\ call.status # 0) =>
          /\ call.status = 200
          /\ (\A i \in 1..Len(call.data.ordering) :
                 call.data.ordering[i].field \notin BookOrderingFields) =>
                call.body \in
                   {[i \in 1..Len(q) |-> BookListItem(q[i], authors)] :
                       q \in OrderBy(SearchFilter(books, authors, call.data.search),
                                     get_ordering(<<>>))}
    /\ (call.op = "authorBooks" /\ call.status # 0) =>
          \/ call.status = 200
          \/ call.status = 404 /\ call.id \notin AuthorIds(authors)
====
